---- MODULE Spec2Model ----
(***************************************************************************)
(* Model of the MO-transport subsystem: the passenger frame of            *)
(* TransportBase / GOTransportBase / Transport, the static and dynamic    *)
(* registries of TransportMgr and the cross-map handoff of                *)
(* TransportMgr::ReachedLastWaypoint.                                      *)
(*                                                                         *)
(* Coordinates are integers (world units); orientations are counted in    *)
(* quarter turns (1 = pi/2), so that sin and cos are exact.                *)
(***************************************************************************)
EXTENDS Integers, Sequences, FiniteSets, TLC

VARIABLES
    m_passengers,       \* TransportBase::m_passengers, per carrier: passenger -> TransportInfo
    m_transportInfo,    \* WorldObject::m_transportInfo: the carrier whose slot the object points to, or NULL
    onTransportFlag,    \* MOVEFLAG_ONTRANSPORT of m_movementInfo, per object (units only)
    position,           \* global position <<x, y, z, o>> of every world object
    call,               \* the last call made: operation, arguments, return value
    sTaxiPathNodesByPath,       \* the taxi path table (DBC): pathId -> sequence of nodes
    goInfos,                    \* the game-object catalog: entry -> GameObjectInfo
    m_staticTransportInfos,     \* TransportMgr::m_staticTransportInfos: entry -> StaticTransportInfo
    m_dynamicTransportInfos,    \* TransportMgr::m_dynamicTransportInfos: entry -> DynamicTransportInfo
    carrier,            \* per transporter instance: state, entry, map id, period (GAMEOBJECT_LEVEL)
    unit,               \* per player and creature: map id, life state, where it is
    rlw,                \* the running ReachedLastWaypoint: position in the handler and its locals
    aborted,            \* a MANGOS_ASSERT has failed
    msTime,             \* WorldTimer::getMSTime(): the wall clock in milliseconds
    legacy,             \* the Transport that follows way points: m_WayPoints, m_curr, m_next, m_timer, ...
    events,             \* the events dispatched so far: kind, node, clock and number of the Update
    tb,                 \* TransportBase: m_updatePositionsTimer, m_lastPosition and the owner's position
    subTicks,           \* the state a run of TransportBase::Update calls started in, and the sum of their diffs
    tick                \* the motion controller on a spline: timePassedMs, pathPointIdx, currentNode, ...

frameVars == <<m_passengers, m_transportInfo, onTransportFlag, position>>

dataVars == <<sTaxiPathNodesByPath, goInfos>>

mgrVars == <<m_staticTransportInfos, m_dynamicTransportInfos, carrier, unit, rlw, aborted>>

motionVars == <<msTime, legacy, events, tb, subTicks, tick>>

vars == <<m_passengers, m_transportInfo, onTransportFlag, position, call,
          sTaxiPathNodesByPath, goInfos, m_staticTransportInfos, m_dynamicTransportInfos,
          carrier, unit, rlw, aborted, msTime, legacy, events, tb, subTicks, tick>>

----------------------------------------------------------------------------
(* Bounds of the model *)

NumPlayers == 1
NumHandoffPlayers == 2
NumCreatures == 1
MaxCarriers == 3
MaxPathLen == 4
MaxInstances == 1

(* Program constants *)

TransportSize == 50
NoSeat == 255
MAX_MAPS_PER_MOT == 2

----------------------------------------------------------------------------
(* World objects *)

NULL == <<"null", 0>>

Players == {<<"player", i>> : i \in 1..NumPlayers}
HandoffPlayers == {<<"player", i>> : i \in 1..NumHandoffPlayers}
Mots == {<<"mot", i>> : i \in 1..MaxCarriers}
Creatures == {<<"creature", i>> : i \in 1..NumCreatures}
BoardMots == {<<"mot", 1>>}
LegacyTransports == {<<"transport", 1>>}

BoardCarriers == BoardMots \cup LegacyTransports
BoardObjects == Players \cup BoardCarriers

IsUnit(obj) == obj[1] \in {"player", "creature"}
IsPlayer(obj) == obj[1] = "player"

Abs(v) == IF v < 0 THEN -v ELSE v

----------------------------------------------------------------------------
(* Inputs *)

LocalInputs ==
    { <<TransportSize, -TransportSize, TransportSize, 1>>,
      <<TransportSize + 1, 0, 0, 0>>,
      <<0, -(TransportSize + 1), 0, 0>>,
      <<0, 0, TransportSize + 1, 0>> }

SetLocalInputs == { <<TransportSize + 1, 2, 3, 0>> }

NoPos == <<0, 0, 0, 0>>

NoRlw == [pc |-> "idle"]

(* No carrier of the specification moves by itself *)
NoMotion ==
    /\ msTime = 0
    /\ legacy = <<>>
    /\ events = <<>>
    /\ tb = <<>>
    /\ subTicks = <<>>
    /\ tick = <<>>

----------------------------------------------------------------------------
(* Trigonometry in quarter turns, and MapManager::NormalizeOrientation *)

NormalizeOrientation(o) == o % 4

Cos4(o) == CASE o % 4 = 0 -> 1 [] o % 4 = 1 -> 0 [] o % 4 = 2 -> -1 [] OTHER -> 0

Sin4(o) == CASE o % 4 = 0 -> 0 [] o % 4 = 1 -> 1 [] o % 4 = 2 -> 0 [] OTHER -> -1

----------------------------------------------------------------------------
(* TransportInfo and WorldObject accessors *)

TransportInfo(transport, pos, seat) ==
    [m_transport |-> transport, m_localPosition |-> pos, m_seat |-> seat]

IsBoardedIn(info, obj) == info[obj] # NULL

IsBoarded(obj) == IsBoardedIn(m_transportInfo, obj)

(* The sine and cosine cached by the TransportBase constructor; no carrier
   of the boarding model turns after construction. *)
m_cosO(transport) == Cos4(position[transport][4])

m_sinO(transport) == Sin4(position[transport][4])

RotateLocalPosition(transport, lx, ly) ==
    << lx * m_cosO(transport) - ly * m_sinO(transport),
       lx * m_sinO(transport) + ly * m_cosO(transport) >>

CalculateGlobalPositionOf(transport, pos) ==
    LET r == RotateLocalPosition(transport, pos[1], pos[2])
    IN  << r[1] + position[transport][1],
           r[2] + position[transport][2],
           pos[3] + position[transport][3],
           NormalizeOrientation(pos[4] + position[transport][4]) >>

(* The positions of all objects after UpdateGlobalPositionOf(passenger, pos):
   players and creatures are relocated, game objects are left alone. *)
UpdateGlobalPositionOf(transport, passenger, pos) ==
    IF IsUnit(passenger)
    THEN [position EXCEPT ![passenger] = CalculateGlobalPositionOf(transport, pos)]
    ELSE position

(* The walk of HasOnBoard down the back-references, in the back-reference
   table info; fuel bounds the walk, which on a cycle never returns. *)
RECURSIVE HasOnBoardWalk(_, _, _, _)
HasOnBoardWalk(info, owner, passenger, fuel) ==
    IF ~IsBoardedIn(info, passenger) THEN "false"
    ELSE IF info[passenger] = owner THEN "true"
    ELSE IF fuel = 0 THEN "diverges"
    ELSE HasOnBoardWalk(info, owner, info[passenger], fuel - 1)

HasOnBoard(owner, passenger) ==
    HasOnBoardWalk(m_transportInfo, owner, passenger, Cardinality(DOMAIN m_transportInfo))

----------------------------------------------------------------------------
(* TransportBase::BoardPassenger and TransportBase::UnBoardPassenger, as the
   values of m_passengers and m_transportInfo after the call *)

(* std::map::insert keeps an entry that is already there *)
BoardPassenger_passengers(transport, passenger, pos, seat) ==
    IF passenger \in DOMAIN m_passengers[transport]
    THEN m_passengers
    ELSE [m_passengers EXCEPT ![transport] =
            [o \in DOMAIN m_passengers[transport] \cup {passenger} |->
                IF o = passenger THEN TransportInfo(transport, pos, seat)
                ELSE m_passengers[transport][o]]]

BoardPassenger_transportInfo(transport, passenger) ==
    [m_transportInfo EXCEPT ![passenger] = transport]

(* Mutant: the entry of the passenger is not erased *)
UnBoardPassenger_passengers_Kept(transport, passenger) == m_passengers

UnBoardPassenger_passengers(transport, passenger) ==
    IF passenger \notin DOMAIN m_passengers[transport]
    THEN m_passengers
    ELSE [m_passengers EXCEPT ![transport] =
            [o \in DOMAIN m_passengers[transport] \ {passenger} |->
                m_passengers[transport][o]]]

(* Mutant: the back-reference of the passenger is not reset *)
UnBoardPassenger_transportInfo_Kept(transport, passenger) == m_transportInfo

UnBoardPassenger_transportInfo(transport, passenger) ==
    IF passenger \notin DOMAIN m_passengers[transport]
    THEN m_transportInfo
    ELSE [m_transportInfo EXCEPT ![passenger] = NULL]

AddMovementFlag(passenger) ==
    IF IsUnit(passenger)
    THEN [onTransportFlag EXCEPT ![passenger] = TRUE]
    ELSE onTransportFlag

(* Mutant: the flag is toggled instead of removed *)
RemoveMovementFlag_Toggle(passenger) ==
    IF IsUnit(passenger)
    THEN [onTransportFlag EXCEPT ![passenger] = ~onTransportFlag[passenger]]
    ELSE onTransportFlag

RemoveMovementFlag(passenger) ==
    IF IsUnit(passenger)
    THEN [onTransportFlag EXCEPT ![passenger] = FALSE]
    ELSE onTransportFlag

(* Mutant: the z coordinate is not checked *)
OutOfBounds_NoZ(pos) ==
    Abs(pos[1]) > TransportSize \/ Abs(pos[2]) > TransportSize

(* "Transport size is limited" *)
OutOfBounds(pos) ==
    Abs(pos[1]) > TransportSize \/ Abs(pos[2]) > TransportSize \/ Abs(pos[3]) > TransportSize

(* The record of a call; again: the call before it was the same operation
   on the same carrier and passenger *)
Call(op, transport, passenger, pos, ret) ==
    [op |-> op, transport |-> transport, passenger |-> passenger, pos |-> pos, ret |-> ret,
     again |-> (call.op = op /\ call.transport = transport /\ call.passenger = passenger)]

----------------------------------------------------------------------------
(* GOTransportBase::Board / UnBoard *)

(* Mutant: a passenger that is still boarded is not refused *)
Board_NoBoardedCheck(transport, passenger, pos) ==
    IF OutOfBounds(pos)
    THEN /\ call' = Call("Board", transport, passenger, pos, FALSE)
         /\ UNCHANGED <<m_passengers, m_transportInfo, onTransportFlag, position>>
    ELSE /\ m_passengers' = BoardPassenger_passengers(transport, passenger, pos, NoSeat)
         /\ m_transportInfo' = BoardPassenger_transportInfo(transport, passenger)
         /\ onTransportFlag' = AddMovementFlag(passenger)
         /\ call' = Call("Board", transport, passenger, pos, TRUE)
         /\ UNCHANGED position

Board(transport, passenger, pos) ==
    IF IsBoarded(passenger) \/ OutOfBounds(pos)
    THEN /\ call' = Call("Board", transport, passenger, pos, FALSE)
         /\ UNCHANGED <<m_passengers, m_transportInfo, onTransportFlag, position>>
    ELSE /\ m_passengers' = BoardPassenger_passengers(transport, passenger, pos, NoSeat)
         /\ m_transportInfo' = BoardPassenger_transportInfo(transport, passenger)
         /\ onTransportFlag' = AddMovementFlag(passenger)
         /\ call' = Call("Board", transport, passenger, pos, TRUE)
         /\ UNCHANGED position

UnBoard(transport, passenger) ==
    IF ~IsBoarded(passenger)
    THEN /\ call' = Call("UnBoard", transport, passenger, NoPos, FALSE)
         /\ UNCHANGED <<m_passengers, m_transportInfo, onTransportFlag, position>>
    ELSE /\ onTransportFlag' = RemoveMovementFlag(passenger)
         /\ m_passengers' = UnBoardPassenger_passengers(transport, passenger)
         /\ m_transportInfo' = UnBoardPassenger_transportInfo(transport, passenger)
         /\ call' = Call("UnBoard", transport, passenger, NoPos, TRUE)
         /\ UNCHANGED position

(* Transport::BoardPassenger / UnBoardPassenger, on the Transport's m_transportBase *)

Transport_BoardPassenger(transport, passenger, pos) ==
    IF IsBoarded(passenger) \/ OutOfBounds(pos)
    THEN /\ call' = Call("Transport::BoardPassenger", transport, passenger, pos, FALSE)
         /\ UNCHANGED <<m_passengers, m_transportInfo, onTransportFlag, position>>
    ELSE /\ m_passengers' = BoardPassenger_passengers(transport, passenger, pos, NoSeat)
         /\ m_transportInfo' = BoardPassenger_transportInfo(transport, passenger)
         /\ onTransportFlag' = AddMovementFlag(passenger)
         /\ call' = Call("Transport::BoardPassenger", transport, passenger, pos, TRUE)
         /\ UNCHANGED position

Transport_UnBoardPassenger(transport, passenger) ==
    IF ~IsBoarded(passenger)
    THEN /\ call' = Call("Transport::UnBoardPassenger", transport, passenger, NoPos, FALSE)
         /\ UNCHANGED <<m_passengers, m_transportInfo, onTransportFlag, position>>
    ELSE /\ onTransportFlag' = RemoveMovementFlag(passenger)
         /\ m_passengers' = UnBoardPassenger_passengers(transport, passenger)
         /\ m_transportInfo' = UnBoardPassenger_transportInfo(transport, passenger)
         /\ call' = Call("Transport::UnBoardPassenger", transport, passenger, NoPos, TRUE)
         /\ UNCHANGED position

(* TransportInfo::SetLocalPosition, called on the TransportInfo the passenger
   points to: the slot of the passenger on its carrier *)
SetLocalPosition(passenger, pos) ==
    /\ IsBoarded(passenger)
    /\ passenger \in DOMAIN m_passengers[m_transportInfo[passenger]]
    /\ LET transport == m_transportInfo[passenger]
       IN  /\ m_passengers' = [m_passengers EXCEPT ![transport][passenger].m_localPosition = pos]
           /\ position' = UpdateGlobalPositionOf(transport, passenger, pos)
           /\ call' = Call("SetLocalPosition", transport, passenger, pos, TRUE)
    /\ UNCHANGED <<m_transportInfo, onTransportFlag>>

----------------------------------------------------------------------------
(* The boarding specification: one GOTransportBase carrier, one Transport,
   and the objects that may board them (the carriers included). *)

CarrierStart(transport) ==
    IF transport[1] = "mot" THEN <<100 * transport[2], 200, 0, 1>> ELSE <<0, 0, 10 * transport[2], 0>>

InitBoard ==
    /\ m_passengers = [t \in BoardCarriers |-> <<>>]
    /\ m_transportInfo = [o \in BoardObjects |-> NULL]
    /\ onTransportFlag = [o \in BoardObjects |-> FALSE]
    /\ position = [o \in BoardObjects |-> IF o \in BoardCarriers THEN CarrierStart(o) ELSE NoPos]
    /\ call = [op |-> "none", transport |-> NULL, passenger |-> NULL, pos |-> NoPos,
               ret |-> FALSE, again |-> FALSE]
    /\ sTaxiPathNodesByPath = <<>>
    /\ goInfos = <<>>
    /\ m_staticTransportInfos = <<>>
    /\ m_dynamicTransportInfos = <<>>
    /\ carrier = <<>>
    /\ unit = <<>>
    /\ rlw = NoRlw
    /\ aborted = FALSE
    /\ NoMotion

NextBoard ==
    /\ \/ \E t \in BoardMots, o \in BoardObjects, pos \in LocalInputs : Board(t, o, pos)
       \/ \E t \in BoardMots, o \in BoardObjects : UnBoard(t, o)
       \/ \E t \in LegacyTransports, o \in BoardObjects, pos \in LocalInputs : Transport_BoardPassenger(t, o, pos)
       \/ \E t \in LegacyTransports, o \in BoardObjects : Transport_UnBoardPassenger(t, o)
       \/ \E o \in BoardObjects, pos \in SetLocalInputs : SetLocalPosition(o, pos)
    /\ UNCHANGED <<dataVars, motionVars, mgrVars>>

SpecBoard == InitBoard /\ [][NextBoard]_vars

----------------------------------------------------------------------------
(* Taxi paths and the game-object catalog *)

TaxiPathNode(mapid, x, delay) == [mapid |-> mapid, x |-> x, y |-> 0, z |-> 0, delay |-> delay]

GameObjectInfo(id, taxiPathId, moveSpeed) ==
    [id |-> id, type |-> "GAMEOBJECT_TYPE_MO_TRANSPORT", taxiPathId |-> taxiPathId, moveSpeed |-> moveSpeed]

(* The null GameObjectInfo pointer of an entry without a template *)
NoGameObjectInfo == [id |-> 0, type |-> "none", taxiPathId |-> 0, moveSpeed |-> 0]

GetTaxiPathNodeList(pathId) == sTaxiPathNodesByPath[pathId]

(* Movement::Spline<int32>: the control points of one map and the prefix
   times of its segments.  The nodes of the model lie on the x axis, where the
   arc length of a segment is the distance of its two control points. *)
NoSpline == [points |-> <<>>, lengths |-> <<>>]

SegLength(points, i) == Abs(points[i + 1][1] - points[i][1])

SplineFirstPoint(spline) == spline.points[1]

SplineLength(spline) ==
    IF spline.lengths = <<>> THEN 0 ELSE spline.lengths[Len(spline.lengths)]

(* InitCacher::operator(): time += SegLength(i) * velocityInv, velocityInv =
   1000.f / velocity, the sum truncated to int32 *)
InitCacher(velocity, time, segLength) == time + (segLength * 1000) \div velocity

(* initLengths with an InitCacher whose time starts at 1 *)
RECURSIVE initLengths(_, _, _, _, _)
initLengths(points, velocity, i, time, lengths) ==
    IF i >= Len(points) THEN lengths
    ELSE LET t == InitCacher(velocity, time, SegLength(points, i))
         IN  initLengths(points, velocity, i + 1, t, Append(lengths, t))

init_spline(points, velocity) ==
    [points |-> points, lengths |-> initLengths(points, velocity, 1, 1, <<>>)]

----------------------------------------------------------------------------
(* TransportMgr::InsertTransporter *)

(* Mutant: the delay is added in seconds *)
AddDelay_Seconds(period, node) == IF node.delay # 0 THEN period + node.delay ELSE period

(* "Delay is in seconds" *)
AddDelay(period, node) == IF node.delay # 0 THEN period + node.delay * 1000 ELSE period

(* "First split transport paths": the loop over the nodes, from node i on,
   with j the index of the map the previous node was on.  overrun: a map
   change past the last element of mapIDs. *)
RECURSIVE SplitPath(_, _, _, _, _, _)
SplitPath(path, i, j, mapIDs, transportPaths, period) ==
    IF i > Len(path)
    THEN [mapIDs |-> mapIDs, transportPaths |-> transportPaths, period |-> period, overrun |-> FALSE]
    ELSE LET changed == path[i].mapid # mapIDs[j]
             jn == IF changed THEN j + 1 ELSE j
         IN  IF jn > MAX_MAPS_PER_MOT
             THEN [mapIDs |-> mapIDs, transportPaths |-> transportPaths, period |-> period, overrun |-> TRUE]
             ELSE SplitPath(path, i + 1, jn,
                            IF changed THEN [mapIDs EXCEPT ![jn] = path[i].mapid] ELSE mapIDs,
                            [transportPaths EXCEPT ![jn] = Append(@, <<path[i].x, path[i].y, path[i].z>>)],
                            AddDelay(period, path[i]))

(* The loop that builds one spline per map, from index i on.  asserted:
   MANGOS_ASSERT(transportSpline->length() > 1) has failed. *)
RECURSIVE BuildSplines(_, _, _, _)
BuildSplines(split, velocity, i, acc) ==
    IF i > MAX_MAPS_PER_MOT \/ ~(i = 1 \/ split.mapIDs[i - 1] # split.mapIDs[i])
    THEN acc
    ELSE LET transportSpline == init_spline(split.transportPaths[i], velocity)
         IN  IF ~(SplineLength(transportSpline) > 1)
             THEN [acc EXCEPT !.asserted = TRUE]
             ELSE BuildSplines(split, velocity, i + 1,
                               [acc EXCEPT !.splineList[i] = transportSpline,
                                           !.period = @ + SplineLength(transportSpline)])

(* The StaticTransportInfo InsertTransporter builds for goInfo, and how the
   call ends: "inserted", "asserted" (a MANGOS_ASSERT failed) or "overrun"
   (the path changes map more often than mapIDs has room for). *)
InsertTransporter(goInfo) ==
    LET path == GetTaxiPathNodeList(goInfo.taxiPathId)
        none == [goInfo |-> goInfo, mapIDs |-> <<>>, splineList |-> <<>>, period |-> 0]
    IN  IF goInfo = NoGameObjectInfo
        THEN [status |-> "asserted", info |-> none]
        ELSE IF ~(goInfo.type = "GAMEOBJECT_TYPE_MO_TRANSPORT"
                  /\ goInfo.taxiPathId \in DOMAIN sTaxiPathNodesByPath)
        THEN [status |-> "asserted", info |-> none]
        ELSE IF ~(Len(path) > 0)
        THEN [status |-> "asserted", info |-> none]
        ELSE LET split == SplitPath(path, 1, 1,
                                    [k \in 1..MAX_MAPS_PER_MOT |-> path[1].mapid],
                                    [k \in 1..MAX_MAPS_PER_MOT |-> <<>>], 0)
                 built == BuildSplines(split, goInfo.moveSpeed, 1,
                                       [splineList |-> [k \in 1..MAX_MAPS_PER_MOT |-> NoSpline],
                                        period |-> split.period, asserted |-> FALSE])
             IN  IF split.overrun THEN [status |-> "overrun", info |-> none]
                 ELSE IF built.asserted THEN [status |-> "asserted", info |-> none]
                 ELSE [status |-> "inserted",
                       info |-> [goInfo |-> goInfo, mapIDs |-> split.mapIDs,
                                 splineList |-> built.splineList, period |-> built.period]]

(* InsertTransporter is called once for every transport of the catalog
   while the game objects are loaded. *)
LoadTransporter(entry) ==
    /\ ~aborted
    /\ rlw.pc = "startup"
    /\ entry \in DOMAIN goInfos
    /\ entry \notin DOMAIN m_staticTransportInfos
    /\ LET r == InsertTransporter(goInfos[entry])
       IN  /\ r.status # "overrun"
           /\ IF r.status = "inserted"
              THEN /\ m_staticTransportInfos' =
                        [e \in DOMAIN m_staticTransportInfos \cup {entry} |->
                            IF e = entry THEN r.info ELSE m_staticTransportInfos[e]]
                   /\ UNCHANGED aborted
              ELSE /\ aborted' = TRUE
                   /\ UNCHANGED m_staticTransportInfos
    /\ call' = Call("InsertTransporter", NULL, NULL, NoPos, ~aborted')
    /\ UNCHANGED <<frameVars, dataVars, motionVars, m_dynamicTransportInfos, carrier, unit, rlw>>

----------------------------------------------------------------------------
(* The compile specification: one transport whose taxi path and speed are
   any of the inputs below. *)

CompileMaps == {0, 1}
CompileXs == {0, 10}
CompileDelays == {0, 5}
CompileSpeeds == {10, 30}

CompileNodes ==
    {TaxiPathNode(m, x, d) : m \in CompileMaps, x \in CompileXs, d \in CompileDelays}

RECURSIVE NumRuns(_, _)
NumRuns(path, i) ==
    IF path = <<>> THEN 0
    ELSE IF i >= Len(path) THEN 1
    ELSE NumRuns(path, i + 1) + (IF path[i].mapid # path[i + 1].mapid THEN 1 ELSE 0)

(* The paths whose map changes fit mapIDs *)
CompilePaths ==
    {p \in UNION {[1..n -> CompileNodes] : n \in 0..MaxPathLen} : NumRuns(p, 1) <= MAX_MAPS_PER_MOT}

InitCompile ==
    /\ m_passengers = <<>>
    /\ m_transportInfo = <<>>
    /\ onTransportFlag = <<>>
    /\ position = <<>>
    /\ call = [op |-> "none", transport |-> NULL, passenger |-> NULL, pos |-> NoPos,
               ret |-> FALSE, again |-> FALSE]
    /\ \E p \in CompilePaths : sTaxiPathNodesByPath = [i \in {0} |-> p]
    /\ \E v \in CompileSpeeds : goInfos = [e \in {1} |-> GameObjectInfo(e, 0, v)]
    /\ m_staticTransportInfos = <<>>
    /\ m_dynamicTransportInfos = <<>>
    /\ carrier = <<>>
    /\ unit = <<>>
    /\ rlw = [pc |-> "startup"]
    /\ aborted = FALSE
    /\ NoMotion

NextCompile == \E entry \in DOMAIN goInfos : LoadTransporter(entry)

SpecCompile == InitCompile /\ [][NextCompile]_vars

----------------------------------------------------------------------------
(* The load specification: a catalog of two transports and a table of two
   taxi paths, each any of the inputs below; InsertTransporter is called for
   the transports in any order. *)

LoadPaths ==
    { << TaxiPathNode(0, 0, 0), TaxiPathNode(0, 10, 5) >>,
      << TaxiPathNode(0, 0, 0), TaxiPathNode(0, 10, 0), TaxiPathNode(1, 0, 0), TaxiPathNode(1, 10, 0) >>,
      << TaxiPathNode(0, 10, 0), TaxiPathNode(0, 10, 0) >>,
      << TaxiPathNode(0, 0, 0), TaxiPathNode(0, 10, 0), TaxiPathNode(1, 0, 0) >>,
      << TaxiPathNode(0, 0, 0) >>,
      << >> }

LoadTemplates(id) ==
    { GameObjectInfo(id, 0, 10),
      GameObjectInfo(id, 1, 10),
      GameObjectInfo(id, 2, 10),
      [GameObjectInfo(id, 0, 10) EXCEPT !.type = "GAMEOBJECT_TYPE_TRANSPORT"],
      NoGameObjectInfo }

InitLoad ==
    /\ m_passengers = <<>>
    /\ m_transportInfo = <<>>
    /\ onTransportFlag = <<>>
    /\ position = <<>>
    /\ call = [op |-> "none", transport |-> NULL, passenger |-> NULL, pos |-> NoPos,
               ret |-> FALSE, again |-> FALSE]
    /\ \E p0 \in LoadPaths, p1 \in LoadPaths : sTaxiPathNodesByPath = [i \in {0, 1} |-> IF i = 0 THEN p0 ELSE p1]
    /\ \E g1 \in LoadTemplates(1), g2 \in LoadTemplates(2) : goInfos = <<g1, g2>>
    /\ m_staticTransportInfos = <<>>
    /\ m_dynamicTransportInfos = <<>>
    /\ carrier = <<>>
    /\ unit = <<>>
    /\ rlw = [pc |-> "startup"]
    /\ aborted = FALSE
    /\ NoMotion

NextLoad == \E entry \in DOMAIN goInfos : LoadTransporter(entry)

SpecLoad == InitLoad /\ [][NextLoad]_vars

(* A transport of the catalog that has a template of type MO_TRANSPORT, a taxi
   path of the table, at least two nodes on every map of the path, and on
   every map two nodes that differ *)
RECURSIVE UsableRuns(_, _, _)
UsableRuns(path, from, i) ==
    IF i > Len(path) THEN TRUE
    ELSE IF i = Len(path) \/ path[i + 1].mapid # path[i].mapid
    THEN /\ i > from
         /\ \E k \in from..(i - 1) : <<path[k].x, path[k].y, path[k].z>> # <<path[k + 1].x, path[k + 1].y, path[k + 1].z>>
         /\ UsableRuns(path, i + 1, i + 1)
    ELSE UsableRuns(path, from, i + 1)

ValidTransport(entry) ==
    /\ goInfos[entry] # NoGameObjectInfo
    /\ goInfos[entry].type = "GAMEOBJECT_TYPE_MO_TRANSPORT"
    /\ goInfos[entry].taxiPathId \in DOMAIN sTaxiPathNodesByPath
    /\ LET path == sTaxiPathNodesByPath[goInfos[entry].taxiPathId]
       IN  /\ Len(path) > 0
           /\ NumRuns(path, 1) <= MAX_MAPS_PER_MOT
           /\ UsableRuns(path, 1, 1)

(* C14: the load of the static registry is never ended by a bad entry: there
   is no state in which a failed entry has stopped the load while a valid
   transport of the catalog is not in the registry. *)
C14_BadEntryIsSkipped ==
    ~(/\ aborted
      /\ \E e \in DOMAIN goInfos : ValidTransport(e) /\ e \notin DOMAIN m_staticTransportInfos)

----------------------------------------------------------------------------
(* Properties of the path compiler *)

RECURSIVE SumDelays(_, _)
SumDelays(path, i) == IF i > Len(path) THEN 0 ELSE path[i].delay + SumDelays(path, i + 1)

RECURSIVE SumSplineLengths(_, _)
SumSplineLengths(splineList, i) ==
    IF i > Len(splineList) THEN 0
    ELSE (IF splineList[i] = NoSpline THEN 0 ELSE splineList[i].lengths[Len(splineList[i].lengths)])
         + SumSplineLengths(splineList, i + 1)

(* C1: the period stored for a compiled route is the sum of the total lengths
   in milliseconds of its per-map splines plus 1000 times the sum of the
   delays of all nodes of its taxi path. *)
C1_PeriodIsSum ==
    \A e \in DOMAIN m_staticTransportInfos :
        m_staticTransportInfos[e].period =
            SumSplineLengths(m_staticTransportInfos[e].splineList, 1)
            + 1000 * SumDelays(sTaxiPathNodesByPath[goInfos[e].taxiPathId], 1)

(* A route over two maps with a delay on a node has been compiled. *)
C1_Witness ==
    \E e \in DOMAIN m_staticTransportInfos :
        /\ m_staticTransportInfos[e].mapIDs[1] # m_staticTransportInfos[e].mapIDs[2]
        /\ \A k \in 1..MAX_MAPS_PER_MOT : m_staticTransportInfos[e].splineList[k] # NoSpline
        /\ SumDelays(sTaxiPathNodesByPath[goInfos[e].taxiPathId], 1) > 0
        /\ m_staticTransportInfos[e].period > 1000 * SumDelays(sTaxiPathNodesByPath[goInfos[e].taxiPathId], 1)

----------------------------------------------------------------------------
(* TransportMgr::CreateTransporter and TransportMgr::InitializeTransporters *)

HandoffObjects == HandoffPlayers \cup Creatures \cup Mots

NoGuid == <<"guid", 0>>

(* A GameObject that does not exist (yet).  guid: GetObjectGuid; period:
   GAMEOBJECT_LEVEL; arrived: the transporter has reached the last waypoint of
   its spline. *)
NoCarrier ==
    [state |-> "none", entry |-> 0, mapId |-> 0, period |-> 0, guid |-> NoGuid, arrived |-> FALSE]

(* "Guid == Entry" *)
ObjectGuid(entry) == <<"guid", entry>>

(* Mutant: the entry of the registry is built by the standard constructor *)
DynamicTransportInfo_Default(transportGuid, currentMapId) ==
    [transportGuid |-> NoGuid, currentMapId |-> 0]

DynamicTransportInfo(transportGuid, currentMapId) ==
    [transportGuid |-> transportGuid, currentMapId |-> currentMapId]

GetTransportGuid(entry) ==
    IF entry \notin DOMAIN m_dynamicTransportInfos THEN NoGuid
    ELSE m_dynamicTransportInfos[entry].transportGuid

GetCurrentMapId(entry) ==
    IF entry \notin DOMAIN m_dynamicTransportInfos THEN 0
    ELSE m_dynamicTransportInfos[entry].currentMapId

(* The continents of sMapStore *)
IsContinent(mapId) == mapId \in {0, 1}

(* The GameObject that new GameObject yields: the first unused instance *)
FreeMots == {t \in Mots : carrier[t].state = "none"}

NewGameObject == CHOOSE t \in FreeMots : \A u \in FreeMots : t[2] <= u[2]

(* The half of the side of a map: coordinates beyond it are no valid map
   coordinates *)
MAP_HALFSIZE == 17066

(* GameObject::Create of a transporter at a node of its path: false, the
   "delete transporter; return NULL" of CreateTransporter, for a template
   that is not in the catalog and for coordinates that are not on the map *)
GameObject_Create(goInfo, mapId, pos) ==
    /\ goInfo.id \in DOMAIN goInfos
    /\ pos[1] \in (-MAP_HALFSIZE)..MAP_HALFSIZE
    /\ pos[2] \in (-MAP_HALFSIZE)..MAP_HALFSIZE

(* Mutant: the transporter is put at the last point of the spline *)
StartPos_Last(splineList, mapIdx) == splineList[mapIdx].points[Len(splineList[mapIdx].points)]

(* startPos = splineList[mapIdx]->getPoint(splineList[mapIdx]->first()) *)
StartPos(splineList, mapIdx) == SplineFirstPoint(splineList[mapIdx])

(* Mutant: the map of the first element of mapIDs is created *)
CreateMap_First(mapIDs, mapIdx) == mapIDs[1]

(* The id of the map of sMapMgr.CreateMap(mapIDs[mapIdx], NULL) *)
CreateMap(mapIDs, mapIdx) == mapIDs[mapIdx]

(* carrier, position and m_dynamicTransportInfos after CreateTransporter *)
CreateTransporter(goInfo, mapId, pos, period) ==
    LET transporter == NewGameObject
    IN  IF ~GameObject_Create(goInfo, mapId, pos)
        THEN UNCHANGED <<carrier, position, m_dynamicTransportInfos>>
        ELSE /\ carrier' = [carrier EXCEPT ![transporter] =
                    [state |-> "live", entry |-> goInfo.id, mapId |-> mapId, period |-> period,
                     guid |-> ObjectGuid(goInfo.id), arrived |-> FALSE]]
             /\ position' = [position EXCEPT ![transporter] = <<pos[1], pos[2], pos[3], 0>>]
             /\ m_dynamicTransportInfos' =
                    [e \in DOMAIN m_dynamicTransportInfos \cup {goInfo.id} |->
                        IF e = goInfo.id
                        THEN DynamicTransportInfo(carrier'[transporter].guid, mapId)
                        ELSE m_dynamicTransportInfos[e]]

(* The catalog of the model holds one transport, so that the loop over
   m_staticTransportInfos has one iteration. *)
InitializeTransporters ==
    /\ ~aborted
    /\ rlw.pc = "startup"
    /\ DOMAIN m_staticTransportInfos = DOMAIN goInfos
    /\ LET e == CHOOSE e \in DOMAIN m_staticTransportInfos : TRUE
           info == m_staticTransportInfos[e]
       IN  IF ~IsContinent(info.mapIDs[1])
           THEN UNCHANGED <<carrier, position, m_dynamicTransportInfos>>
           ELSE CreateTransporter(info.goInfo, CreateMap(info.mapIDs, 1),
                                  StartPos(info.splineList, 1), info.period)
    /\ rlw' = NoRlw
    /\ call' = Call("InitializeTransporters", NULL, NULL, NoPos, TRUE)
    /\ UNCHANGED <<m_passengers, m_transportInfo, onTransportFlag, dataVars, motionVars,
                   m_staticTransportInfos, unit, aborted>>

(* Map::Instanceable: the maps that are no continents *)
Instanceable(mapId) == ~IsContinent(mapId)

(* Mutant: the map of the transporter is not compared with the loaded map *)
FindInstanceIdx_First(mapIDs, mapId) == 1

(* The first j with mapIDs[j] = mapId, MAX_MAPS_PER_MOT + 1 if there is none *)
FindInstanceIdx(mapIDs, mapId) ==
    IF \E j \in 1..MAX_MAPS_PER_MOT : mapIDs[j] = mapId
    THEN CHOOSE j \in 1..MAX_MAPS_PER_MOT :
            /\ mapIDs[j] = mapId
            /\ \A h \in 1..(j - 1) : mapIDs[h] # mapId
    ELSE MAX_MAPS_PER_MOT + 1

(* "Called in Map constructor"; the loop over m_staticTransportInfos has one
   iteration, as in InitializeTransporters. *)
LoadTransporterForInstanceMap(mapId) ==
    /\ ~aborted
    /\ rlw.pc = "idle"
    /\ FreeMots # {}
    /\ Cardinality({t \in Mots : carrier[t].state # "none" /\ Instanceable(carrier[t].mapId)})
            < MaxInstances
    /\ DOMAIN m_staticTransportInfos # {}
    /\ LET e == CHOOSE e \in DOMAIN m_staticTransportInfos : TRUE
           info == m_staticTransportInfos[e]
           j == FindInstanceIdx(info.mapIDs, mapId)
       IN  IF ~Instanceable(mapId)
           THEN /\ UNCHANGED <<carrier, position, m_dynamicTransportInfos>>
                /\ call' = Call("LoadTransporterForInstanceMap", NULL, NULL, NoPos, FALSE)
           ELSE IF ~(info.mapIDs[1] = info.mapIDs[2]) \/ j = MAX_MAPS_PER_MOT + 1
           THEN /\ UNCHANGED <<carrier, position, m_dynamicTransportInfos>>
                /\ call' = Call("LoadTransporterForInstanceMap", NULL, NULL, NoPos, FALSE)
           ELSE /\ CreateTransporter(info.goInfo, mapId, StartPos(info.splineList, j), info.period)
                /\ call' = Call("LoadTransporterForInstanceMap", NewGameObject, NULL, NoPos, TRUE)
    /\ UNCHANGED <<m_passengers, m_transportInfo, onTransportFlag, dataVars, motionVars,
                   m_staticTransportInfos, unit, rlw, aborted>>

----------------------------------------------------------------------------
(* Player::TeleportTo, Player::RepopAtGraveyard, Player::ResurrectPlayer *)

GraveyardPos == <<-1, -1, -1, 0>>

(* Mutant: a teleported player stays in the passenger map *)
TeleportTo_Unboards_Never(accepted) == FALSE

(* Whether the player has left its carrier when TeleportTo returns:
   "TeleportTo unboards passenger"; a refused teleport changes nothing. *)
TeleportTo_Unboards(accepted) == accepted

(* The repop at a graveyard takes the player off the carrier *)
RepopAtGraveyard_Unboards == TRUE

(* m_passengers after the player has left the carrier *)
LeaveTransport_passengers(transport, plr) ==
    [m_passengers EXCEPT ![transport] =
        [o \in DOMAIN m_passengers[transport] \ {plr} |-> m_passengers[transport][o]]]

ResurrectPlayer(plr, life) == "alive"

IsDead(life) == life \in {"dead", "ghost"}

HasGhostFlag(life) == life = "ghost"

----------------------------------------------------------------------------
(* TransportMgr::ReachedLastWaypoint *)

(* std::map order of the passengers (the order of their addresses) *)
ObjRank(obj) ==
    CASE obj[1] = "player" -> 2 * (obj[2] - 1)
      [] obj[1] = "creature" -> 2 * obj[2] - 1
      [] OTHER -> 100 + obj[2]

End == <<"end", 0>>

Begin(passengers) ==
    IF DOMAIN passengers = {} THEN End
    ELSE CHOOSE o \in DOMAIN passengers : \A q \in DOMAIN passengers : ObjRank(o) <= ObjRank(q)

(* Mutant: the loop ends at the first passenger that is no player *)
Increment_End(passengers, itr) == End

(* ++passengerItr *)
Increment(passengers, itr) ==
    LET later == {o \in DOMAIN passengers : ObjRank(o) > ObjRank(itr)}
    IN  IF later = {} THEN End
        ELSE CHOOSE o \in later : \A q \in later : ObjRank(o) <= ObjRank(q)

(* The first index of mapIDs that holds mapId, MAX_MAPS_PER_MOT + 1 if none *)
FindMapIdx(mapIDs, mapId) ==
    IF \E k \in 1..MAX_MAPS_PER_MOT : mapIDs[k] = mapId
    THEN CHOOSE k \in 1..MAX_MAPS_PER_MOT :
            /\ mapIDs[k] = mapId
            /\ \A h \in 1..(k - 1) : mapIDs[h] # mapId
    ELSE MAX_MAPS_PER_MOT + 1

(* Mutant: the index of the next map does not wrap *)
NextMapIdx_NoWrap(mapIdx) == IF mapIdx < MAX_MAPS_PER_MOT THEN mapIdx + 1 ELSE mapIdx

(* ++mapIdx %= MAX_MAPS_PER_MOT, on indices that start at 1 *)
NextMapIdx(mapIdx) == (mapIdx % MAX_MAPS_PER_MOT) + 1

(* Mutant: the test for a transporter that stays on one map is missing *)
OnlyOneMap_Never(mapIDs, mapIdx, mapId) == FALSE

(* "Transporter that only move on one map don't need multi-map teleportation" *)
OnlyOneMap(mapIDs, mapIdx, mapId) == mapIDs[mapIdx] = mapId

(* Mutant: the loop ends with the first player it has handled *)
CursorAfterPlayer_End(passengers, itr) == End

(* passengerItr = transportBase->GetPassengers().begin() *)
CursorAfterPlayer(passengers, itr) == Begin(passengers)

(* The Update of a transporter reaches the last waypoint of its spline;
   ReachedLastWaypoint is "called by GOTransportBase::Update when last
   waypoint is reached" *)
Update_LastWaypoint(transport) ==
    /\ ~aborted
    /\ rlw.pc = "idle"
    /\ carrier[transport].state = "live"
    /\ ~carrier[transport].arrived
    /\ carrier' = [carrier EXCEPT ![transport].arrived = TRUE]
    /\ call' = Call("Update", transport, NULL, NoPos, TRUE)
    /\ UNCHANGED <<frameVars, dataVars, motionVars, m_staticTransportInfos, m_dynamicTransportInfos,
                   unit, rlw, aborted>>

(* From the entry of ReachedLastWaypoint to the start of the passenger loop *)
RLW_Begin(transport) ==
    /\ ~aborted
    /\ rlw.pc = "idle"
    /\ carrier[transport].state = "live"
    /\ carrier[transport].arrived
    /\ FreeMots # {}
    /\ LET entry == carrier[transport].entry
           staticInfo == m_staticTransportInfos[entry]
           mapIdx == FindMapIdx(staticInfo.mapIDs, carrier[transport].mapId)
           nextIdx == NextMapIdx(mapIdx)
       IN  IF ~(entry \in DOMAIN m_staticTransportInfos) \/ ~(mapIdx <= MAX_MAPS_PER_MOT)
           THEN /\ aborted' = TRUE
                /\ call' = Call("ReachedLastWaypoint", transport, NULL, NoPos, FALSE)
                /\ UNCHANGED <<carrier, position, m_dynamicTransportInfos, rlw>>
           ELSE IF OnlyOneMap(staticInfo.mapIDs, nextIdx, carrier[transport].mapId)
           THEN /\ call' = Call("ReachedLastWaypoint", transport, NULL, NoPos, FALSE)
                /\ UNCHANGED <<carrier, position, m_dynamicTransportInfos, rlw, aborted>>
           ELSE IF staticInfo.splineList[nextIdx] = NoSpline
           THEN /\ aborted' = TRUE
                /\ call' = Call("ReachedLastWaypoint", transport, NULL, NoPos, FALSE)
                /\ UNCHANGED <<carrier, position, m_dynamicTransportInfos, rlw>>
           ELSE /\ CreateTransporter(staticInfo.goInfo, CreateMap(staticInfo.mapIDs, nextIdx),
                                     StartPos(staticInfo.splineList, nextIdx),
                                     staticInfo.period)
                /\ rlw' = [pc |-> "loop", transport |-> transport, mapIdx |-> nextIdx,
                           created |-> NewGameObject,
                           passengerItr |-> Begin(m_passengers[transport]),
                           refused |-> {}, teleported |-> {}]
                /\ call' = Call("ReachedLastWaypoint", transport, NULL, NoPos, TRUE)
                /\ UNCHANGED aborted
    /\ UNCHANGED <<m_passengers, m_transportInfo, onTransportFlag, dataVars, motionVars,
                   m_staticTransportInfos, unit>>

(* Mutant: the player is teleported to the place of the old transporter *)
TeleportTo_Position_Owner(transport, transportInfo) == position[transport]

(* The coordinates ReachedLastWaypoint passes to TeleportTo: the local
   position of the passenger, with the entry of the transporter *)
TeleportTo_Position(transport, transportInfo) == transportInfo.m_localPosition

(* One iteration of the passenger loop on a player; accepted is the answer
   of the player's TeleportTo *)
RLW_Player(accepted) ==
    /\ ~aborted
    /\ rlw.pc = "loop"
    /\ rlw.passengerItr # End
    /\ IsPlayer(rlw.passengerItr)
    /\ LET plr == rlw.passengerItr
           transport == rlw.transport
           staticInfo == m_staticTransportInfos[carrier[transport].entry]
           life == IF IsDead(unit[plr].life) /\ ~HasGhostFlag(unit[plr].life)
                   THEN ResurrectPlayer(plr, unit[plr].life) ELSE unit[plr].life
           transportInfo == m_passengers[m_transportInfo[plr]][plr]
           leaves == TeleportTo_Unboards(accepted) \/ (~accepted /\ RepopAtGraveyard_Unboards)
       IN  /\ IF leaves
              THEN /\ m_passengers' = LeaveTransport_passengers(transport, plr)
                   /\ m_transportInfo' = [m_transportInfo EXCEPT ![plr] = NULL]
                   /\ onTransportFlag' = [onTransportFlag EXCEPT ![plr] = FALSE]
              ELSE UNCHANGED <<m_passengers, m_transportInfo, onTransportFlag>>
           /\ IF accepted
              THEN /\ unit' = [unit EXCEPT ![plr] =
                          [mapId |-> staticInfo.mapIDs[rlw.mapIdx], life |-> life,
                           where |-> "transport", entry |-> staticInfo.goInfo.id]]
                   /\ position' = [position EXCEPT ![plr] = TeleportTo_Position(transport, transportInfo)]
              ELSE /\ unit' = [unit EXCEPT ![plr] =
                          [mapId |-> @.mapId, life |-> life, where |-> "graveyard", entry |-> 0]]
                   /\ position' = [position EXCEPT ![plr] = GraveyardPos]
           /\ rlw' = [rlw EXCEPT !.passengerItr = CursorAfterPlayer(m_passengers'[transport], plr),
                                 !.refused = IF accepted THEN @ ELSE @ \cup {plr},
                                 !.teleported = IF accepted THEN @ \cup {plr} ELSE @]
           /\ call' = Call("TeleportTo", transport, plr, TeleportTo_Position(transport, transportInfo),
                           accepted)
    /\ UNCHANGED <<dataVars, motionVars, m_staticTransportInfos, m_dynamicTransportInfos, carrier, aborted>>

(* One iteration of the passenger loop on a passenger that is no player *)
RLW_Other ==
    /\ ~aborted
    /\ rlw.pc = "loop"
    /\ rlw.passengerItr # End
    /\ ~IsPlayer(rlw.passengerItr)
    /\ rlw' = [rlw EXCEPT !.passengerItr = Increment(m_passengers[rlw.transport], rlw.passengerItr)]
    /\ call' = Call("++passengerItr", rlw.transport, rlw.passengerItr, NoPos, TRUE)
    /\ UNCHANGED <<frameVars, dataVars, motionVars, m_staticTransportInfos, m_dynamicTransportInfos,
                   carrier, unit, aborted>>

(* The passengers that the destruction of a transporter takes with it:
   "destroy the transporter and it's other passengers" *)
Delete_Released(transport) == {o \in DOMAIN m_passengers[transport] : ~IsPlayer(o)}

(* "Destroy old transporter": Delete, which removes the transporter with its
   other passengers, and the assertion of ~TransportBase *)
RLW_Delete ==
    /\ ~aborted
    /\ rlw.pc = "loop"
    /\ rlw.passengerItr = End
    /\ LET transport == rlw.transport
           released == Delete_Released(transport)
       IN  /\ m_passengers' = [m_passengers EXCEPT ![transport] =
                    [o \in DOMAIN m_passengers[transport] \ released |-> m_passengers[transport][o]]]
           /\ m_transportInfo' = [o \in DOMAIN m_transportInfo |->
                    IF o \in released THEN NULL ELSE m_transportInfo[o]]
           /\ onTransportFlag' = [o \in DOMAIN onTransportFlag |->
                    IF o \in released THEN FALSE ELSE onTransportFlag[o]]
           /\ unit' = [o \in DOMAIN unit |->
                    IF o \in released THEN [unit[o] EXCEPT !.where = "removed"] ELSE unit[o]]
           /\ carrier' = [carrier EXCEPT ![transport].state = "deleted"]
           /\ aborted' = ~(Cardinality(DOMAIN m_passengers'[transport]) = 0)
           /\ rlw' = [rlw EXCEPT !.pc = "idle"]
           /\ call' = Call("Delete", transport, NULL, NoPos, TRUE)
    /\ UNCHANGED <<position, dataVars, motionVars, m_staticTransportInfos, m_dynamicTransportInfos>>

----------------------------------------------------------------------------
(* The handoff specification: one transport, over two maps or on one map,
   players and creatures that board and leave it, and its handoffs. *)

HandoffPaths ==
    { << TaxiPathNode(0, 0, 0), TaxiPathNode(0, 10, 0),
         TaxiPathNode(1, 40, 0), TaxiPathNode(1, 50, 5) >>,
      << TaxiPathNode(0, 0, 0), TaxiPathNode(0, 10, 5), TaxiPathNode(0, 25, 0) >>,
      << TaxiPathNode(2, 5, 0), TaxiPathNode(2, 20, 5) >> }

(* The maps whose constructor runs: a continent and a dungeon *)
LoadedMaps == {1, 2}

HandoffLocals == { <<1, 2, 3, 0>> }

(* A player dies, and a dead player releases the spirit *)
KillPlayer(plr) ==
    /\ ~aborted
    /\ rlw.pc = "idle"
    /\ unit[plr].life = "alive"
    /\ unit' = [unit EXCEPT ![plr].life = "dead"]
    /\ call' = Call("KillPlayer", NULL, plr, NoPos, TRUE)
    /\ UNCHANGED <<frameVars, dataVars, motionVars, m_staticTransportInfos, m_dynamicTransportInfos,
                   carrier, rlw, aborted>>

BuildPlayerCorpse(plr) ==
    /\ ~aborted
    /\ rlw.pc = "idle"
    /\ unit[plr].life = "dead"
    /\ unit' = [unit EXCEPT ![plr].life = "ghost"]
    /\ call' = Call("BuildPlayerCorpse", NULL, plr, NoPos, TRUE)
    /\ UNCHANGED <<frameVars, dataVars, motionVars, m_staticTransportInfos, m_dynamicTransportInfos,
                   carrier, rlw, aborted>>

InitHandoff ==
    /\ m_passengers = [t \in Mots |-> <<>>]
    /\ m_transportInfo = [o \in HandoffObjects |-> NULL]
    /\ onTransportFlag = [o \in HandoffObjects |-> FALSE]
    /\ position = [o \in HandoffObjects |-> NoPos]
    /\ call = [op |-> "none", transport |-> NULL, passenger |-> NULL, pos |-> NoPos,
               ret |-> FALSE, again |-> FALSE]
    /\ \E p \in HandoffPaths : sTaxiPathNodesByPath = [i \in {0} |-> p]
    /\ goInfos = [e \in {1} |-> GameObjectInfo(e, 0, 10)]
    /\ m_staticTransportInfos = <<>>
    /\ m_dynamicTransportInfos = <<>>
    /\ carrier = [t \in Mots |-> NoCarrier]
    /\ unit = [p \in HandoffPlayers \cup Creatures |->
                    [mapId |-> 0, life |-> "alive", where |-> "world", entry |-> 0]]
    /\ rlw = [pc |-> "startup"]
    /\ aborted = FALSE
    /\ NoMotion

LiveMots == {t \in Mots : carrier[t].state = "live"}

(* The players and creatures that are in the world *)
WorldUnits == {o \in DOMAIN unit : unit[o].where # "removed"}

NextHandoff ==
    \/ \E entry \in DOMAIN goInfos : LoadTransporter(entry)
    \/ InitializeTransporters
    \/ /\ ~aborted /\ rlw.pc = "idle"
       /\ \E t \in LiveMots, o \in WorldUnits, pos \in HandoffLocals : Board(t, o, pos)
       /\ UNCHANGED <<dataVars, motionVars, mgrVars>>
    \/ /\ ~aborted /\ rlw.pc = "idle"
       /\ \E t \in LiveMots, o \in WorldUnits : UnBoard(t, o)
       /\ UNCHANGED <<dataVars, motionVars, mgrVars>>
    \/ \E plr \in HandoffPlayers : KillPlayer(plr)
    \/ \E plr \in HandoffPlayers : BuildPlayerCorpse(plr)
    \/ \E mapId \in LoadedMaps : LoadTransporterForInstanceMap(mapId)
    \/ \E t \in Mots : Update_LastWaypoint(t)
    \/ \E t \in Mots : RLW_Begin(t)
    \/ \E accepted \in BOOLEAN : RLW_Player(accepted)
    \/ RLW_Other
    \/ RLW_Delete

SpecHandoff == InitHandoff /\ [][NextHandoff]_vars

(* The instance specification: the handoff specification on routes that
   touch the dungeon maps 2 and 3: routes on one map (continent 1, dungeons 2
   and 3) and routes over two maps (continent to dungeon, dungeon to
   dungeon). *)
InstancePaths ==
    { << TaxiPathNode(1, 0, 0), TaxiPathNode(1, 10, 5) >>,
      << TaxiPathNode(2, 5, 0), TaxiPathNode(2, 20, 5) >>,
      << TaxiPathNode(3, 5, 0), TaxiPathNode(3, 20, 0) >>,
      << TaxiPathNode(0, 0, 0), TaxiPathNode(0, 10, 0), TaxiPathNode(2, 40, 0), TaxiPathNode(2, 50, 5) >>,
      << TaxiPathNode(2, 0, 0), TaxiPathNode(2, 10, 0), TaxiPathNode(3, 40, 0), TaxiPathNode(3, 50, 0) >> }

InitInstance ==
    /\ m_passengers = [t \in Mots |-> <<>>]
    /\ m_transportInfo = [o \in HandoffObjects |-> NULL]
    /\ onTransportFlag = [o \in HandoffObjects |-> FALSE]
    /\ position = [o \in HandoffObjects |-> NoPos]
    /\ call = [op |-> "none", transport |-> NULL, passenger |-> NULL, pos |-> NoPos,
               ret |-> FALSE, again |-> FALSE]
    /\ \E p \in InstancePaths : sTaxiPathNodesByPath = [i \in {0} |-> p]
    /\ goInfos = [e \in {1} |-> GameObjectInfo(e, 0, 10)]
    /\ m_staticTransportInfos = <<>>
    /\ m_dynamicTransportInfos = <<>>
    /\ carrier = [t \in Mots |-> NoCarrier]
    /\ unit = [p \in HandoffPlayers \cup Creatures |->
                    [mapId |-> 0, life |-> "alive", where |-> "world", entry |-> 0]]
    /\ rlw = [pc |-> "startup"]
    /\ aborted = FALSE
    /\ NoMotion

SpecInstance == InitInstance /\ [][NextHandoff]_vars

(* The creation specification: the handoff specification on a route over the
   continents 0 and 1, and on the same route with the nodes of continent 1
   at coordinates that are not on the map, where GameObject::Create fails. *)
CreatePaths ==
    { << TaxiPathNode(0, 0, 0), TaxiPathNode(0, 10, 0),
         TaxiPathNode(1, 40, 0), TaxiPathNode(1, 50, 5) >>,
      << TaxiPathNode(0, 0, 0), TaxiPathNode(0, 10, 0),
         TaxiPathNode(1, MAP_HALFSIZE + 40, 0), TaxiPathNode(1, MAP_HALFSIZE + 50, 5) >> }

InitCreate ==
    /\ m_passengers = [t \in Mots |-> <<>>]
    /\ m_transportInfo = [o \in HandoffObjects |-> NULL]
    /\ onTransportFlag = [o \in HandoffObjects |-> FALSE]
    /\ position = [o \in HandoffObjects |-> NoPos]
    /\ call = [op |-> "none", transport |-> NULL, passenger |-> NULL, pos |-> NoPos,
               ret |-> FALSE, again |-> FALSE]
    /\ \E p \in CreatePaths : sTaxiPathNodesByPath = [i \in {0} |-> p]
    /\ goInfos = [e \in {1} |-> GameObjectInfo(e, 0, 10)]
    /\ m_staticTransportInfos = <<>>
    /\ m_dynamicTransportInfos = <<>>
    /\ carrier = [t \in Mots |-> NoCarrier]
    /\ unit = [p \in HandoffPlayers \cup Creatures |->
                    [mapId |-> 0, life |-> "alive", where |-> "world", entry |-> 0]]
    /\ rlw = [pc |-> "startup"]
    /\ aborted = FALSE
    /\ NoMotion

SpecCreate == InitCreate /\ [][NextHandoff]_vars

(* ReachedLastWaypoint runs to its end once it is entered *)
SpecHandoffFair ==
    /\ SpecHandoff
    /\ WF_vars(\E accepted \in BOOLEAN : RLW_Player(accepted))
    /\ WF_vars(RLW_Other)
    /\ WF_vars(RLW_Delete)

----------------------------------------------------------------------------
(* Properties of the handoff *)

InHandoff == "refused" \in DOMAIN rlw

SingleMapRoute(entry) ==
    \A i, k \in DOMAIN sTaxiPathNodesByPath[goInfos[entry].taxiPathId] :
        sTaxiPathNodesByPath[goInfos[entry].taxiPathId][i].mapid
            = sTaxiPathNodesByPath[goInfos[entry].taxiPathId][k].mapid

(* C8: a carrier that has been destroyed had no passengers when it was
   destroyed (the assertion of ~TransportBase held); in particular the
   carrier that a handoff deletes, whatever players and creatures were on
   board when ReachedLastWaypoint was entered. *)
C8_DestroyedCarrierIsEmpty ==
    /\ \A t \in DOMAIN carrier :
            carrier[t].state = "deleted" => DOMAIN m_passengers[t] = {}
    /\ ~aborted

(* A handoff has deleted a carrier that had a teleported player, a refused
   player and a creature on board. *)
C8_Witness ==
    /\ InHandoff /\ rlw.pc = "idle"
    /\ carrier[rlw.transport].state = "deleted"
    /\ rlw.teleported # {} /\ rlw.refused # {}
    /\ \E o \in DOMAIN unit : ~IsPlayer(o) /\ unit[o].where = "removed"

(* C9: a player whose teleport was refused during a handoff is off the old
   carrier and at a graveyard; the handoff that refused a teleport still
   ends, and when it has ended no player is left on the old carrier, the
   old carrier is deleted and the new carrier lives on the next map. *)
C9_RefusedTeleport ==
    /\ [](InHandoff =>
            /\ \A plr \in rlw.refused :
                    /\ plr \notin DOMAIN m_passengers[rlw.transport]
                    /\ unit[plr].where = "graveyard"
            /\ (rlw.pc = "idle" /\ rlw.refused # {}) =>
                    /\ \A o \in DOMAIN m_passengers[rlw.transport] : ~IsPlayer(o)
                    /\ carrier[rlw.transport].state = "deleted"
                    /\ carrier[rlw.created].state = "live"
                    /\ carrier[rlw.created].mapId # carrier[rlw.transport].mapId
                    /\ carrier[rlw.created].mapId
                         \in {n.mapid : n \in {sTaxiPathNodesByPath[0][i] : i \in DOMAIN sTaxiPathNodesByPath[0]}})
    /\ ((rlw.pc = "loop" /\ rlw.refused # {}) ~> (rlw.pc = "idle"))

(* A handoff has ended in which one player was refused and another one was
   teleported. *)
C9_Witness ==
    /\ InHandoff /\ rlw.pc = "idle"
    /\ rlw.refused # {} /\ rlw.teleported # {}
    /\ carrier[rlw.transport].state = "deleted"

(* C10: for a transport whose route stays on one map ReachedLastWaypoint
   creates no carrier, deletes none, teleports and unboards nobody and
   leaves the dynamic registry as it is. *)
C10_SingleMapNoHandoff ==
    [][ (call'.op = "ReachedLastWaypoint" /\ SingleMapRoute(carrier[call'.transport].entry))
            => /\ UNCHANGED <<frameVars, carrier, unit, m_dynamicTransportInfos, aborted>>
               /\ rlw'.pc = "idle" ]_vars

(* ReachedLastWaypoint has returned for a single-map transport with a player
   and a creature on board. *)
C10_Witness ==
    /\ call.op = "ReachedLastWaypoint" /\ call.ret = FALSE
    /\ SingleMapRoute(carrier[call.transport].entry)
    /\ carrier[call.transport].state = "live"
    /\ \E plr \in DOMAIN m_passengers[call.transport] : IsPlayer(plr)
    /\ \E o \in DOMAIN m_passengers[call.transport] : ~IsPlayer(o)

(* The taxi path of a transport of the catalog, the nodes at which its runs
   of equal map id start, and its segments in route order *)
PathOf(entry) == sTaxiPathNodesByPath[goInfos[entry].taxiPathId]

RunStartIdx(path) == {i \in 1..Len(path) : i = 1 \/ path[i].mapid # path[i - 1].mapid}

NumSegments(path) == Cardinality(RunStartIdx(path))

SegmentStart(path, k) ==
    path[CHOOSE i \in RunStartIdx(path) : Cardinality({j \in RunStartIdx(path) : j < i}) = k - 1]

OnSegment(t, path, k) ==
    /\ carrier[t].mapId = SegmentStart(path, k).mapid
    /\ position[t] = <<SegmentStart(path, k).x, SegmentStart(path, k).y, SegmentStart(path, k).z, 0>>

(* The segment a carrier was created for, 0 if there is none *)
SegmentOf(t) ==
    LET path == PathOf(carrier[t].entry)
    IN  IF \E k \in 1..NumSegments(path) : OnSegment(t, path, k)
        THEN CHOOSE k \in 1..NumSegments(path) : OnSegment(t, path, k)
        ELSE 0

(* C11: when the carrier of segment i of a multi-map route reaches its last
   waypoint, ReachedLastWaypoint creates the new carrier on the map of segment
   (i + 1) mod n, at the start of the spline of that segment, n being the
   number of segments: the route is passed in route order and wraps from the
   last segment to the first. *)
C11_HandoffsInRouteOrder ==
    [][ (call'.op = "ReachedLastWaypoint" /\ ~SingleMapRoute(carrier[call'.transport].entry))
            => LET path == PathOf(carrier[call'.transport].entry)
                   i == SegmentOf(call'.transport)
                   next == SegmentStart(path, (i % NumSegments(path)) + 1)
               IN  /\ i # 0
                   /\ rlw'.pc = "loop"
                   /\ carrier'[rlw'.created].state = "live"
                   /\ carrier'[rlw'.created].mapId = next.mapid
                   /\ position'[rlw'.created] = <<next.x, next.y, next.z, 0>> ]_vars

(* The carrier of the last segment has reached its last waypoint and the new
   carrier is on the map of the first segment. *)
C11_Witness ==
    /\ InHandoff /\ rlw.pc = "loop" /\ call.op = "ReachedLastWaypoint"
    /\ SegmentOf(rlw.transport) = NumSegments(PathOf(carrier[rlw.transport].entry))
    /\ NumSegments(PathOf(carrier[rlw.transport].entry)) > 1
    /\ SegmentOf(rlw.created) = 1

(* C12: the carrier that a handoff creates is on the next map at the first
   point of the spline of that map with orientation 0, has the entry and the
   period of the old carrier, no passengers, and has not arrived. *)
C12_CreatedCarrier ==
    [][ (call'.op = "ReachedLastWaypoint" /\ rlw'.pc = "loop")
            => LET old == carrier[rlw'.transport]
                   new == carrier'[rlw'.created]
                   info == m_staticTransportInfos[old.entry]
               IN  /\ carrier[rlw'.created].state = "none" /\ new.state = "live"
                   /\ new.mapId # old.mapId
                   /\ \E k \in 1..MAX_MAPS_PER_MOT :
                        /\ info.mapIDs[k] = new.mapId
                        /\ info.splineList[k] # NoSpline
                        /\ position'[rlw'.created] =
                                <<info.splineList[k].points[1][1], info.splineList[k].points[1][2],
                                  info.splineList[k].points[1][3], 0>>
                   /\ new.entry = old.entry
                   /\ new.period = old.period
                   /\ DOMAIN m_passengers'[rlw'.created] = {}
                   /\ \A o \in DOMAIN m_transportInfo : m_transportInfo'[o] # rlw'.created
                   /\ ~new.arrived ]_vars

(* A handoff has created its carrier while the old one, which has arrived,
   still has its passengers. *)
C12_Witness ==
    /\ InHandoff /\ rlw.pc = "loop" /\ call.op = "ReachedLastWaypoint"
    /\ DOMAIN m_passengers[rlw.transport] # {}
    /\ carrier[rlw.transport].arrived
    /\ carrier[rlw.created].state = "live" /\ carrier[rlw.created].period > 0

(* The entries GetTransportGuid and GetCurrentMapId are asked for: the
   transport of the catalog and one that is no transport *)
RegistryEntries == {1, 2}

(* C13: when a handoff of a transport entry has completed, GetCurrentMapId of
   the entry is the map of the new carrier and GetTransportGuid of the entry is
   the guid of the new carrier; for an entry no carrier was ever created for,
   GetTransportGuid is the empty guid and GetCurrentMapId is 0. *)
C13_RegistryNamesNewCarrier ==
    /\ (InHandoff /\ rlw.pc = "idle" /\ carrier[rlw.transport].state = "deleted")
            => /\ carrier[rlw.created].state = "live"
               /\ GetCurrentMapId(carrier[rlw.created].entry) = carrier[rlw.created].mapId
               /\ GetTransportGuid(carrier[rlw.created].entry) = carrier[rlw.created].guid
               /\ carrier[rlw.created].guid # NoGuid
    /\ \A e \in RegistryEntries :
            (\A t \in DOMAIN carrier : carrier[t].state = "none" \/ carrier[t].entry # e)
                => GetTransportGuid(e) = NoGuid /\ GetCurrentMapId(e) = 0

(* The second handoff of a transport has completed and the registry names a
   map other than the one the transport started on. *)
C13_Witness ==
    /\ InHandoff /\ rlw.pc = "idle"
    /\ carrier[rlw.transport].state = "deleted"
    /\ \E t \in DOMAIN carrier : t # rlw.transport /\ carrier[t].state = "deleted"
    /\ GetCurrentMapId(carrier[rlw.created].entry) # carrier[rlw.transport].mapId

(* C15: every live carrier is on the map of a segment of its route, the
   segment it was created at the start of; its map id is one of the map ids
   of the route. *)
C15_CarrierOnSegmentMap ==
    \A t \in DOMAIN carrier :
        carrier[t].state = "live"
            => /\ SegmentOf(t) # 0
               /\ carrier[t].mapId \in {PathOf(carrier[t].entry)[i].mapid :
                                            i \in DOMAIN PathOf(carrier[t].entry)}
               /\ \E k \in 1..MAX_MAPS_PER_MOT :
                    /\ m_staticTransportInfos[carrier[t].entry].mapIDs[k] = carrier[t].mapId
                    /\ m_staticTransportInfos[carrier[t].entry].splineList[k] # NoSpline

(* A carrier that a handoff has created lives on the map of the second
   segment, and so does a carrier that the load of a dungeon has created. *)
C15_Witness ==
    \/ /\ InHandoff /\ rlw.pc = "idle"
       /\ carrier[rlw.created].state = "live"
       /\ SegmentOf(rlw.created) = 2
    \/ \E t \in DOMAIN carrier :
            carrier[t].state = "live" /\ Instanceable(carrier[t].mapId) /\ SegmentOf(t) = 1

----------------------------------------------------------------------------
(* Properties of the passenger frame *)

BoardOps == {"Board", "Transport::BoardPassenger"}

UnBoardOps == {"UnBoard", "Transport::UnBoardPassenger"}

frame == <<m_passengers, m_transportInfo, onTransportFlag, position>>

(* C2: Board(P, ...) on a carrier returns false whenever P is already boarded
   on any carrier, and then nothing changes: the passenger sets, the local
   positions, the back-references and the flags are what they were. *)
C2_BoardRefusesBoarded ==
    [][ (call'.op \in BoardOps /\ IsBoarded(call'.passenger))
            => (call'.ret = FALSE /\ UNCHANGED frame) ]_vars

(* A Board with coordinates in bounds was refused on one carrier while the
   passenger sits on another. *)
C2_Witness ==
    /\ call.op \in BoardOps /\ call.ret = FALSE /\ ~OutOfBounds(call.pos)
    /\ IsBoarded(call.passenger)
    /\ m_transportInfo[call.passenger] # call.transport
    /\ call.passenger \in DOMAIN m_passengers[m_transportInfo[call.passenger]]

(* C3: Board(P, lx, ly, lz, lo) returns false whenever |lx| > 50 or |ly| > 50
   or |lz| > 50 and then leaves P unboarded and everything else unchanged; an
   unboarded P with coordinates of magnitude at most 50 (exactly 50 included)
   is accepted and gets a slot with these coordinates. *)
C3_BoardRefusesOutOfBounds ==
    [][ /\ (call'.op \in BoardOps /\ \E k \in 1..3 : Abs(call'.pos[k]) > TransportSize)
            => (call'.ret = FALSE /\ UNCHANGED frame)
        /\ (call'.op \in BoardOps /\ ~IsBoarded(call'.passenger)
              /\ \A k \in 1..3 : Abs(call'.pos[k]) <= TransportSize)
            => /\ call'.ret = TRUE
               /\ m_transportInfo'[call'.passenger] = call'.transport
               /\ call'.passenger \in DOMAIN m_passengers'[call'.transport]
               /\ m_passengers'[call'.transport][call'.passenger].m_localPosition = call'.pos
      ]_vars

(* An unboarded passenger was refused for a coordinate beyond 50 and is still
   unboarded, without slot and without flag. *)
C3_Witness ==
    /\ call.op \in BoardOps /\ call.ret = FALSE
    /\ \E k \in 1..3 : Abs(call.pos[k]) > TransportSize
    /\ ~IsBoarded(call.passenger)
    /\ \A t \in DOMAIN m_passengers : call.passenger \notin DOMAIN m_passengers[t]
    /\ ~onTransportFlag[call.passenger]

(* C4: every passenger boarded on a carrier has local coordinates with
   |x| <= 50, |y| <= 50 and |z| <= 50. *)
C4_LocalPositionInBounds ==
    \A t \in DOMAIN m_passengers : \A o \in DOMAIN m_passengers[t] :
        /\ Abs(m_passengers[t][o].m_localPosition[1]) <= TransportSize
        /\ Abs(m_passengers[t][o].m_localPosition[2]) <= TransportSize
        /\ Abs(m_passengers[t][o].m_localPosition[3]) <= TransportSize

(* C5 as claimed: right after a Board that returned true HasOnBoard is true,
   and right after any UnBoard(P) on C, C.HasOnBoard(P) is false. *)
C5_HasOnBoardAfterUnBoard ==
    /\ (call.op \in BoardOps /\ call.ret)
            => HasOnBoard(call.transport, call.passenger) = "true"
    /\ call.op \in UnBoardOps
            => HasOnBoard(call.transport, call.passenger) = "false"

(* C5 as amended: right after a Board that returned true HasOnBoard is true;
   right after UnBoard(P) on the carrier C that P's back-reference named,
   C.HasOnBoard(P) is false. *)
C5_HasOnBoardAfterDirectUnBoard ==
    [][ /\ (call'.op \in BoardOps /\ call'.ret)
            => HasOnBoardWalk(m_transportInfo', call'.transport, call'.passenger,
                              Cardinality(DOMAIN m_transportInfo)) = "true"
        /\ (call'.op \in UnBoardOps /\ m_transportInfo[call'.passenger] = call'.transport)
            => HasOnBoardWalk(m_transportInfo', call'.transport, call'.passenger,
                              Cardinality(DOMAIN m_transportInfo)) = "false"
      ]_vars

(* A passenger was unboarded from a carrier that is itself boarded on another
   carrier. *)
C5_Witness ==
    /\ call.op \in UnBoardOps /\ call.ret = TRUE
    /\ ~IsBoarded(call.passenger)
    /\ call.passenger \notin DOMAIN m_passengers[call.transport]
    /\ IsBoarded(call.transport)
    /\ m_transportInfo[call.transport] # call.transport

(* C6: the second of two UnBoard(P) calls in a row on the same carrier
   changes neither a passenger set nor a back-reference nor a flag. *)
C6_UnBoardTwice ==
    [][ (call.op \in UnBoardOps /\ call'.op = call.op
           /\ call'.transport = call.transport /\ call'.passenger = call.passenger)
            => UNCHANGED frame ]_vars

(* UnBoard(P) has just been called a second time in a row on a carrier. *)
C6_Witness ==
    /\ call.op \in UnBoardOps /\ call.again
    /\ ~IsBoarded(call.passenger)
    /\ IsUnit(call.passenger)

(* C7: UnBoard(P) on a carrier whose passenger set does not contain P changes
   neither a passenger set, nor the on-transport flag of P, nor a
   back-reference. *)
C7_UnBoardAbsentIsNoOp ==
    [][ (call'.op \in UnBoardOps
           /\ call'.passenger \notin DOMAIN m_passengers[call'.transport])
            => UNCHANGED <<m_passengers, m_transportInfo, onTransportFlag>> ]_vars

----------------------------------------------------------------------------
(* The motion controller on a spline: tick(diff) *)

(* The bound of pathProgress, in milliseconds *)
MaxProgress == 12000

UPDATE_POSITIONS_MS == 400

(* The call of tick with its diff; before: the carrier had arrived before
   the call *)
CallTick(diff) ==
    [op |-> "tick", transport |-> <<"mot", 1>>, passenger |-> NULL, pos |-> NoPos,
     ret |-> TRUE, again |-> call.op = "tick", diff |-> diff, before |-> tick.arrived]

(* The indices of a spline of n points are first() = 0 .. last() = n - 1;
   length_ms(i) is the time at which point i is reached *)
spline_first == 0

spline_last(spline) == Len(spline.points) - 1

length_ms(spline, idx) == IF idx = 0 THEN 0 ELSE spline.lengths[idx]

total_length_ms(spline) == length_ms(spline, spline_last(spline))

(* The spline and the taxi path of the carrier that ticks *)
TickSpline == m_staticTransportInfos[1].splineList[1]

TickPath == sTaxiPathNodesByPath[goInfos[1].taxiPathId]

NodeDelay(node) == TickPath[node + 1].delay

(* advance_spline after timePassedMs += diff: the loop over the points *)
RECURSIVE advance_loop(_, _)
advance_loop(spline, s) ==
    IF ~(s.timePassedMs >= length_ms(spline, s.pathPointIdx + 1))
    THEN s
    ELSE IF s.pathPointIdx + 1 >= spline_last(spline)
    THEN IF s.isCyclic
         THEN advance_loop(spline, [s EXCEPT !.currentNode = 0,
                                             !.pathPointIdx = spline_first,
                                             !.timePassedMs = @ % total_length_ms(spline)])
         ELSE [s EXCEPT !.arrived = TRUE,
                        !.pathPointIdx = spline_last(spline) - 1,
                        !.timePassedMs = total_length_ms(spline)]
    ELSE advance_loop(spline, [s EXCEPT !.pathPointIdx = @ + 1])

(* Mutant: the time passes and the cursor stays on its segment *)
advance_spline_NoTransition(spline, s, diff) ==
    [s EXCEPT !.timePassedMs = @ + diff]

advance_spline(spline, s, diff) ==
    advance_loop(spline, [s EXCEPT !.timePassedMs = @ + diff])

(* The last knot the carrier has crossed *)
CrossedKnot(spline, s) ==
    CHOOSE k \in 0..spline_last(spline) :
        /\ length_ms(spline, k) <= s.timePassedMs
        /\ \A j \in 0..spline_last(spline) : length_ms(spline, j) <= s.timePassedMs => j <= k

(* "while crossed one or more knots since last tick" *)
RECURSIVE knot_loop(_, _, _)
knot_loop(spline, s, fired) ==
    IF ~(s.currentNode < CrossedKnot(spline, s))
    THEN [s |-> s, events |-> fired]
    ELSE LET node == s.currentNode + 1
             ev == Append(fired, [kind |-> "arrival", node |-> node])
         IN  IF NodeDelay(node) > 0
             THEN [s |-> [s EXCEPT !.currentNode = node, !.dwellRemainingMs = NodeDelay(node) * 1000],
                   events |-> ev]
             ELSE knot_loop(spline, [s EXCEPT !.currentNode = node], ev)

(* spline.evaluate_percent(pathPointIdx, u) on the x axis, and the yaw in
   quarter turns *)
evaluate_percent(spline, s) ==
    LET a == length_ms(spline, s.pathPointIdx)
        b == length_ms(spline, s.pathPointIdx + 1)
        t == IF s.timePassedMs < a THEN a ELSE IF s.timePassedMs > b THEN b ELSE s.timePassedMs
        x0 == spline.points[s.pathPointIdx + 1][1]
        x1 == spline.points[s.pathPointIdx + 2][1]
    IN  << x0 + ((x1 - x0) * (t - a)) \div (b - a), spline.points[s.pathPointIdx + 1][2],
           spline.points[s.pathPointIdx + 1][3], IF x1 < x0 THEN 2 ELSE 0 >>

(* Mutant: a carrier that has arrived ticks on *)
ArrivedReturns_Never(s) == FALSE

(* "if arrived: return" *)
ArrivedReturns(s) == s.arrived

(* tick(diff): the state after it, the events it fires, and the position it
   relocates the carrier to (NoPos: none) *)
tick_op(spline, s, diff) ==
    IF ArrivedReturns(s)
    THEN [s |-> s, events |-> <<>>, relocate |-> NoPos]
    ELSE LET s1 == [s EXCEPT !.pathProgress = @ + diff]
         IN  IF s1.dwellRemainingMs > 0
             THEN LET left == IF s1.dwellRemainingMs > diff THEN s1.dwellRemainingMs - diff ELSE 0
                  IN  [s |-> [s1 EXCEPT !.dwellRemainingMs = left],
                       events |-> IF left = 0
                                  THEN << [kind |-> "departure", node |-> s1.currentNode] >>
                                  ELSE <<>>,
                       relocate |-> NoPos]
             ELSE LET s2 == advance_spline(spline, s1, diff)
                      elapsed == s2.updatePositionsTimer <= diff
                      s3 == [s2 EXCEPT !.updatePositionsTimer =
                                            IF elapsed THEN UPDATE_POSITIONS_MS ELSE @ - diff]
                      k == knot_loop(spline, s3, <<>>)
                  IN  [s |-> [k.s EXCEPT !.notified = k.s.arrived],
                       events |-> k.events,
                       relocate |-> IF elapsed \/ s2.arrived THEN evaluate_percent(spline, s2) ELSE NoPos]

Tick(diff) ==
    /\ tick.arrived \/ tick.pathProgress + diff <= MaxProgress
    /\ LET r == tick_op(TickSpline, tick, diff)
       IN  /\ tick' = r.s
           /\ events' = r.events
           /\ position' = IF r.relocate = NoPos THEN position
                          ELSE [position EXCEPT ![<<"mot", 1>>] = r.relocate]
    /\ call' = CallTick(diff)
    /\ UNCHANGED <<m_passengers, m_transportInfo, onTransportFlag, dataVars, mgrVars,
                   msTime, legacy, tb, subTicks>>

(* The tick specification: one carrier at the start of the spline of a
   single-map route, cyclic or not, ticked with any of the diffs below. *)

TickPaths ==
    { << TaxiPathNode(0, 0, 0), TaxiPathNode(0, 10, 5), TaxiPathNode(0, 40, 0) >>,
      << TaxiPathNode(0, 0, 0), TaxiPathNode(0, 10, 0), TaxiPathNode(0, 20, 0), TaxiPathNode(0, 30, 5) >> }

TickDiffs == {0, 300, 1000, 5000}

InitTick ==
    /\ m_passengers = [t \in {<<"mot", 1>>} |-> <<>>]
    /\ m_transportInfo = [o \in {<<"mot", 1>>} |-> NULL]
    /\ onTransportFlag = [o \in {<<"mot", 1>>} |-> FALSE]
    /\ call = [op |-> "none", transport |-> NULL, passenger |-> NULL, pos |-> NoPos,
               ret |-> FALSE, again |-> FALSE]
    /\ \E p \in TickPaths : sTaxiPathNodesByPath = [i \in {0} |-> p]
    /\ goInfos = [e \in {1} |-> GameObjectInfo(e, 0, 10)]
    /\ m_staticTransportInfos = [e \in {1} |-> InsertTransporter(goInfos[e]).info]
    /\ position = [o \in {<<"mot", 1>>} |-> Append(SplineFirstPoint(TickSpline), 0)]
    /\ m_dynamicTransportInfos = <<>>
    /\ carrier = <<>>
    /\ unit = <<>>
    /\ rlw = NoRlw
    /\ aborted = FALSE
    /\ msTime = 0
    /\ legacy = <<>>
    /\ events = <<>>
    /\ tb = <<>>
    /\ subTicks = <<>>
    /\ \E cyclic \in BOOLEAN :
         tick = [pathProgress |-> 0, timePassedMs |-> 0, pathPointIdx |-> spline_first,
                 currentNode |-> 0, dwellRemainingMs |-> 0, arrived |-> FALSE,
                 updatePositionsTimer |-> UPDATE_POSITIONS_MS, isCyclic |-> cyclic,
                 notified |-> FALSE]

NextTick == \E diff \in TickDiffs : Tick(diff)

SpecTick == InitTick /\ [][NextTick]_vars

(* The boundary specification: the carrier starts at the end of the spline,
   timePassedMs = total_length_ms on the last segment, the last knot not yet
   counted, neither arrived nor dwelling, which the invariant of the carrier
   (timePassedMs <= totalLengthMs) admits. *)

BoundaryTimers == {UPDATE_POSITIONS_MS, 100}

InitTickBoundary ==
    /\ m_passengers = [t \in {<<"mot", 1>>} |-> <<>>]
    /\ m_transportInfo = [o \in {<<"mot", 1>>} |-> NULL]
    /\ onTransportFlag = [o \in {<<"mot", 1>>} |-> FALSE]
    /\ call = [op |-> "none", transport |-> NULL, passenger |-> NULL, pos |-> NoPos,
               ret |-> FALSE, again |-> FALSE]
    /\ \E p \in TickPaths : sTaxiPathNodesByPath = [i \in {0} |-> p]
    /\ goInfos = [e \in {1} |-> GameObjectInfo(e, 0, 10)]
    /\ m_staticTransportInfos = [e \in {1} |-> InsertTransporter(goInfos[e]).info]
    /\ position = [o \in {<<"mot", 1>>} |->
            Append(TickSpline.points[Len(TickSpline.points)], 0)]
    /\ m_dynamicTransportInfos = <<>>
    /\ carrier = <<>>
    /\ unit = <<>>
    /\ rlw = NoRlw
    /\ aborted = FALSE
    /\ msTime = 0
    /\ legacy = <<>>
    /\ events = <<>>
    /\ tb = <<>>
    /\ subTicks = <<>>
    /\ \E cyclic \in BOOLEAN, timer \in BoundaryTimers :
         tick = [pathProgress |-> total_length_ms(TickSpline),
                 timePassedMs |-> total_length_ms(TickSpline),
                 pathPointIdx |-> spline_last(TickSpline) - 1,
                 currentNode |-> spline_last(TickSpline) - 1, dwellRemainingMs |-> 0,
                 arrived |-> FALSE, updatePositionsTimer |-> timer, isCyclic |-> cyclic,
                 notified |-> FALSE]

SpecTickBoundary == InitTickBoundary /\ [][NextTick]_vars

(* The motion state of the state machine *)
MotionState(s) ==
    IF s.arrived THEN "Arrived" ELSE IF s.dwellRemainingMs > 0 THEN "Dwelling" ELSE "Moving"

(* C16: a tick of a carrier that has arrived changes none of timePassedMs,
   pathPointIdx, currentNode and dwellRemainingMs and fires no event; a tick
   takes Moving to Dwelling only with an arrival at a node with delay > 0,
   Dwelling only to Dwelling or, when the dwell expires within the diff, to
   Moving, and Moving to Arrived only when the time passed reaches the total
   length of the spline of a segment that is not cyclic. *)
C16_MotionStateMachine ==
    [][ call'.op = "tick" =>
          /\ MotionState(tick) = "Arrived"
                => /\ MotionState(tick') = "Arrived"
                   /\ tick'.timePassedMs = tick.timePassedMs
                   /\ tick'.pathPointIdx = tick.pathPointIdx
                   /\ tick'.currentNode = tick.currentNode
                   /\ tick'.dwellRemainingMs = tick.dwellRemainingMs
                   /\ events' = <<>>
          /\ (MotionState(tick) = "Moving" /\ MotionState(tick') = "Dwelling")
                => /\ NodeDelay(tick'.currentNode) > 0
                   /\ tick'.dwellRemainingMs = NodeDelay(tick'.currentNode) * 1000
                   /\ events'[Len(events')] = [kind |-> "arrival", node |-> tick'.currentNode]
          /\ MotionState(tick) = "Dwelling"
                => /\ MotionState(tick') \in {"Dwelling", "Moving"}
                   /\ MotionState(tick') = "Moving" <=> tick.dwellRemainingMs <= call'.diff
                   /\ MotionState(tick') = "Moving"
                        => events' = << [kind |-> "departure", node |-> tick.currentNode] >>
          /\ (MotionState(tick) = "Moving" /\ MotionState(tick') = "Arrived")
                => /\ ~tick.isCyclic
                   /\ tick.timePassedMs + call'.diff >= total_length_ms(TickSpline)
                   /\ tick'.timePassedMs = total_length_ms(TickSpline) ]_vars

(* A carrier that had arrived, with a dwell that has not expired, has been
   ticked with a diff that is not 0. *)
C16_Witness ==
    /\ call.op = "tick" /\ call.before /\ call.diff > 0
    /\ tick.arrived /\ tick.notified
    /\ tick.dwellRemainingMs > 0

----------------------------------------------------------------------------
(* Transport::GenerateWaypoints: the way points of a Transport that follows
   its taxi path by the wall clock.  The nodes of the model lie on the x axis
   at distances d with 2 * d a square, for which the square roots of the code
   are whole numbers of milliseconds; times are in milliseconds and the
   distance d of the stepping loop is kept as 2000000 * d. *)

TaxiPathNodeEntry(mapid, x, actionFlag, delay, arrivalEventID, departureEventID) ==
    [mapid |-> mapid, x |-> x, y |-> 0, z |-> 0, actionFlag |-> actionFlag, delay |-> delay,
     arrivalEventID |-> arrivalEventID, departureEventID |-> departureEventID]

(* delay: the delay of the node the way point was made for; it is not a
   field of WayPoint and is read by the properties only *)
WayPoint(node, teleport) ==
    [mapid |-> node.mapid, x |-> node.x, y |-> node.y, z |-> node.z, teleport |-> teleport,
     arrivalEventID |-> node.arrivalEventID, departureEventID |-> node.departureEventID,
     delay |-> node.delay]

(* The loop over the nodes 1 .. size - 2 that collects the key frames; i is
   the index of the node in the sequence, one more than in the code *)
RECURSIVE KeyFrames(_, _, _, _)
KeyFrames(path, i, mapChange, keyFrames) ==
    IF ~(i < Len(path)) THEN keyFrames
    ELSE IF mapChange = 0
    THEN IF path[i].mapid = path[i + 1].mapid
         THEN KeyFrames(path, i + 1, 0, Append(keyFrames, path[i]))
         ELSE KeyFrames(path, i + 1, 1, keyFrames)
    ELSE KeyFrames(path, i + 1, mapChange - 1, keyFrames)

(* The key frames are indexed from 0 as in the code: key frame i is kf[i + 1] *)
distFromPrev(kf, i) ==
    IF i = 0 THEN 0
    ELSE IF kf[i + 1].actionFlag = 1 \/ kf[i + 1].mapid # kf[i].mapid THEN 0
    ELSE Abs(kf[i + 1].x - kf[i].x)

StopFrames(kf) == {i \in 0..(Len(kf) - 1) : kf[i + 1].actionFlag = 2}

lastStop(kf) ==
    IF StopFrames(kf) = {} THEN -1
    ELSE CHOOSE i \in StopFrames(kf) : \A j \in StopFrames(kf) : j <= i

(* "remember first stop frame": key frame 0 is never the first stop *)
firstStop(kf) ==
    IF StopFrames(kf) \ {0} = {} THEN -1
    ELSE CHOOSE i \in StopFrames(kf) \ {0} : \A j \in StopFrames(kf) \ {0} : i <= j

(* 2^32 modulo n and 2^64 modulo n, for n below 46341 *)
Pow2_32Mod(n) == ((65536 % n) * (65536 % n)) % n

Pow2_64Mod(n) == (Pow2_32Mod(n) * Pow2_32Mod(n)) % n

(* (i + lastStop) % keyFrames.size() in size_t of 64 bits: lastStop = -1 is
   2^64 - 1 *)
SinceIdx(kf, i) ==
    IF lastStop(kf) >= 0 THEN (i + lastStop(kf)) % Len(kf)
    ELSE (i + Pow2_64Mod(Len(kf)) + Len(kf) - 1) % Len(kf)

(* The first loop over tmpDist: distSinceStop of every key frame, and the
   tmpDist it ends with *)
RECURSIVE SinceStopLoop(_, _, _, _)
SinceStopLoop(kf, i, tmpDist, acc) ==
    IF ~(i < Len(kf)) THEN [dist |-> acc, tmpDist |-> tmpDist]
    ELSE LET j == SinceIdx(kf, i)
             d == IF kf[j + 1].actionFlag = 2 THEN 0 ELSE tmpDist + distFromPrev(kf, j)
         IN  SinceStopLoop(kf, i + 1, d, [acc EXCEPT ![j] = d])

distSinceStop(kf) == SinceStopLoop(kf, 0, 0, [j \in 0..(Len(kf) - 1) |-> -1]).dist

(* The second loop, which goes on with the tmpDist of the first *)
RECURSIVE UntilStopLoop(_, _, _, _)
UntilStopLoop(kf, i, tmpDist, acc) ==
    IF ~(i >= 0) THEN acc
    ELSE LET j == (i + (firstStop(kf) + 1)) % Len(kf)
             d == tmpDist + distFromPrev(kf, (j + 1) % Len(kf))
         IN  UntilStopLoop(kf, i - 1, IF kf[j + 1].actionFlag = 2 THEN 0 ELSE d,
                           [acc EXCEPT ![j] = d])

distUntilStop(kf) ==
    UntilStopLoop(kf, Len(kf) - 1,
                  SinceStopLoop(kf, 0, 0, [j \in 0..(Len(kf) - 1) |-> -1]).tmpDist,
                  [j \in 0..(Len(kf) - 1) |-> -1])

(* The whole part of the square root *)
RECURSIVE SqrtBetween(_, _, _)
SqrtBetween(n, lo, hi) ==
    IF lo >= hi THEN lo
    ELSE LET mid == (lo + hi + 1) \div 2
         IN  IF mid * mid <= n THEN SqrtBetween(n, mid, hi) ELSE SqrtBetween(n, lo, mid - 1)

ISqrt(n) == SqrtBetween(n, 0, 46340)

(* tFrom and tTo of a distance: sqrt(2 * dist) seconds below 30 * 30 * 0.5,
   else (dist - 450) / 30 + 30 seconds; in milliseconds *)
AccelTime(dist) ==
    IF dist < 450 THEN ISqrt(2 * dist * 1000000)
    ELSE ((dist - 450) * 1000) \div 30 + 30000

(* 2000000 times the distance covered t milliseconds after (or before) a stop *)
AccelDist(t) ==
    IF t <= 30000 THEN t * t ELSE 900000000 + 60000 * (t - 30000)

(* The loop that moves along a stretch at 100 ms intervals.  After round k
   tFrom is tFrom + 100 * k, tTo is tTo - 100 * k, and d is StretchDist; the
   loop ends with the first round after which d < stretch and tTo > 0 is
   false, and t has gone up by 100 in every round.  The test
   keyFrames[i].node->mapid != cM in it is never true, cM being the map of
   key frame i in every round of the outer loop: no way point is stored
   inside the stretch. *)
StretchDist(since, until, tFrom, tTo, k) ==
    IF tFrom + 100 * k < tTo - 100 * k
    THEN AccelDist(tFrom + 100 * k) - since
    ELSE until - AccelDist(tTo - 100 * k)

StretchGoesOn(stretch, since, until, tFrom, tTo, k) ==
    StretchDist(since, until, tFrom, tTo, k) < stretch /\ tTo - 100 * k > 0

StretchLoop(stretch, since, until, tFrom, tTo, t) ==
    t + 100 * (CHOOSE k \in 1..(tTo \div 100 + 1) :
                /\ ~StretchGoesOn(stretch, since, until, tFrom, tTo, k)
                /\ \A j \in 1..(k - 1) : StretchGoesOn(stretch, since, until, tFrom, tTo, j))

(* The outer loop over the key frames i = 0 .. size - 2: the way points, keyed
   by their time, and the time t *)
RECURSIVE WayPointLoop(_, _, _, _)
WayPointLoop(kf, i, t, wayPoints) ==
    IF ~(i < Len(kf) - 1) THEN [m_WayPoints |-> wayPoints, t |-> t]
    ELSE LET tFrom == AccelTime(distSinceStop(kf)[i])
             tTo == AccelTime(distUntilStop(kf)[i])
             stretch == 2000000 * distFromPrev(kf, i + 1)
             t1 == IF 0 < stretch /\ tTo > 0
                   THEN StretchLoop(stretch, 2000000 * distSinceStop(kf)[i],
                                    2000000 * distUntilStop(kf)[i], tFrom, tTo, t) - 100
                   ELSE t
             nFrom == AccelTime(distSinceStop(kf)[i + 1])
             nTo == AccelTime(distUntilStop(kf)[i + 1])
             t2 == IF nFrom > nTo THEN t1 + 100 - (nTo % 100) ELSE t1 + (nTo % 100)
             teleport == kf[i + 2].actionFlag = 1 \/ kf[i + 2].mapid # kf[i + 1].mapid
             pos == WayPoint(kf[i + 2], teleport)
         IN  WayPointLoop(kf, i + 1, t2 + kf[i + 2].delay * 1000,
                          [k \in DOMAIN wayPoints \cup {t2} |-> IF k = t2 THEN pos ELSE wayPoints[k]])

(* ++itr on m_WayPoints with the wrap of MoveToNextWayPoint *)
NextWayPoint(wayPoints, key) ==
    IF \E k \in DOMAIN wayPoints : k > key
    THEN CHOOSE k \in DOMAIN wayPoints : k > key /\ \A j \in DOMAIN wayPoints : j > key => k <= j
    ELSE CHOOSE k \in DOMAIN wayPoints : \A j \in DOMAIN wayPoints : k <= j

(* m_next = begin; MoveToNextWayPoint(); MoveToNextWayPoint(): "skip first point" *)
FirstCurr(wayPoints) ==
    NextWayPoint(wayPoints, CHOOSE k \in DOMAIN wayPoints : \A j \in DOMAIN wayPoints : k <= j)

(* The Transport after GenerateWaypoints(pathid) *)
GenerateWaypoints(path) ==
    LET kf == KeyFrames(path, 2, 0, <<>>)
        first == WayPoint(kf[1], kf[Len(kf)].mapid # kf[1].mapid)
        gen == WayPointLoop(kf, 0, kf[1].delay * 1000, [k \in {0} |-> first])
    IN  [m_WayPoints |-> gen.m_WayPoints,
         m_curr |-> FirstCurr(gen.m_WayPoints),
         m_next |-> NextWayPoint(gen.m_WayPoints, FirstCurr(gen.m_WayPoints)),
         m_pathTime |-> gen.t,
         m_nextNodeTime |-> FirstCurr(gen.m_WayPoints)]

----------------------------------------------------------------------------
(* Transport::Update and TransportBase::Update *)

(* The bounds of the clock and of the number of Transport::Update calls *)
MaxClock == 30000
MaxUpdates == 3

(* The bounds of the length of a run of TransportBase::Update calls and of
   the x of an owner that moves by itself *)
MaxSubTicks == 3
MaxRelocate == 6

TheTransport == <<"transport", 1>>

ThePassenger == <<"player", 1>>

(* (a - b) % m as the code computes it in uint32 *)
SubModU32(a, b, m) ==
    IF a >= b THEN (a - b) % m
    ELSE (Pow2_32Mod(m) + m - ((b - a) % m)) % m

(* The events DoEventIfAny dispatches for the way point at key: none if the
   event id is 0 *)
DoEventIfAny(s, key, departure) ==
    LET eventid == IF departure THEN s.m_WayPoints[key].departureEventID
                   ELSE s.m_WayPoints[key].arrivalEventID
    IN  IF eventid # 0
        THEN << [kind |-> IF departure THEN "departure" ELSE "arrival", node |-> key,
                 eventId |-> eventid, at |-> msTime, update |-> s.updates + 1] >>
        ELSE <<>>

(* The condition of the while loop of Update *)
LoopCondition(s) ==
    SubModU32(s.m_timer, s.m_curr, s.m_pathTime) > SubModU32(s.m_next, s.m_curr, s.m_pathTime)

(* The while loop of Update.  pos and mapId: where the transport is; fired:
   the events dispatched; globalAt: the position of the last
   UpdateGlobalPositions (NoPos: none).  A loop that has gone round all way
   points with the same m_timer never ends: hung. *)
RECURSIVE UpdateLoop(_, _)
UpdateLoop(s, rounds) ==
    IF ~LoopCondition(s) THEN s
    ELSE IF rounds >= Cardinality(DOMAIN s.m_WayPoints) THEN [s EXCEPT !.hung = TRUE]
    ELSE LET curr == s.m_next
             wp == s.m_WayPoints[curr]
             teleport == wp.mapid # s.mapId \/ wp.teleport
             to == <<wp.x, wp.y, wp.z, s.pos[4]>>
         IN  UpdateLoop([s EXCEPT !.fired = @ \o DoEventIfAny(s, s.m_curr, TRUE)
                                        \o DoEventIfAny(s, curr, FALSE),
                                  !.m_curr = curr,
                                  !.m_next = NextWayPoint(s.m_WayPoints, curr),
                                  !.pos = to,
                                  !.mapId = wp.mapid,
                                  !.globalAt = IF teleport THEN @ ELSE to,
                                  !.m_nextNodeTime = curr],
                        rounds + 1)

(* CalculateGlobalPositionOf for an owner at ownerPos *)
GlobalPositionAt(ownerPos, pos) ==
    << pos[1] * Cos4(ownerPos[4]) - pos[2] * Sin4(ownerPos[4]) + ownerPos[1],
       pos[1] * Sin4(ownerPos[4]) + pos[2] * Cos4(ownerPos[4]) + ownerPos[2],
       pos[3] + ownerPos[3],
       NormalizeOrientation(pos[4] + ownerPos[4]) >>

(* The positions after UpdateGlobalPositions of the transport at ownerPos *)
UpdateGlobalPositions(ownerPos) ==
    [o \in DOMAIN position |->
        IF o = TheTransport THEN ownerPos
        ELSE IF o \in DOMAIN m_passengers[TheTransport] /\ IsUnit(o)
        THEN GlobalPositionAt(ownerPos, m_passengers[TheTransport][o].m_localPosition)
        ELSE position[o]]

CallUpdate(op, diff) ==
    [op |-> op, transport |-> TheTransport, passenger |-> NULL, pos |-> NoPos, ret |-> TRUE,
     again |-> call.op = op, diff |-> diff]

(* Transport::Update(update_diff, p_time) at the clock msTime.  lastAt: the
   clock of the Update before this one (-1: none). *)
Transport_Update(diff) ==
    /\ ~legacy.hung
    /\ legacy.updates < MaxUpdates
    /\ IF Cardinality(DOMAIN legacy.m_WayPoints) <= 1
       THEN /\ legacy' = [legacy EXCEPT !.updates = @ + 1, !.lastAt = msTime]
            /\ UNCHANGED <<events, position, tb>>
       ELSE LET r == UpdateLoop([legacy EXCEPT !.m_timer = msTime % legacy.m_period]
                                    @@ [pos |-> position[TheTransport], fired |-> <<>>,
                                        globalAt |-> NoPos],
                                0)
            IN  /\ legacy' = [legacy EXCEPT !.m_timer = r.m_timer, !.m_curr = r.m_curr,
                                            !.m_next = r.m_next, !.mapId = r.mapId,
                                            !.m_nextNodeTime = r.m_nextNodeTime,
                                            !.hung = r.hung,
                                            !.updates = @ + 1, !.lastAt = msTime]
                /\ events' = events \o r.fired
                /\ position' = IF r.globalAt = NoPos
                               THEN [position EXCEPT ![TheTransport] = r.pos]
                               ELSE [UpdateGlobalPositions(r.globalAt) EXCEPT ![TheTransport] = r.pos]
                /\ tb' = IF r.globalAt = NoPos THEN tb
                         ELSE [tb EXCEPT !.m_lastPosition = r.globalAt]
    /\ call' = CallUpdate("Transport::Update", diff)
    /\ UNCHANGED <<m_passengers, m_transportInfo, onTransportFlag, dataVars, mgrVars,
                   msTime, subTicks, tick>>

(* The wall clock goes on *)
AdvanceClock(ms) ==
    /\ ~legacy.hung
    /\ msTime + ms <= MaxClock
    /\ msTime' = msTime + ms
    /\ call' = CallUpdate("getMSTime", 0)
    /\ UNCHANGED <<frameVars, dataVars, mgrVars, legacy, events, tb, subTicks, tick>>

(* Mutant: the timer has always run out *)
TimerExpired_Always(timer, diff) == TRUE

(* "if (m_updatePositionsTimer < diff)" *)
TimerExpired(timer, diff) == timer < diff

(* Mutant: the timer goes down by one *)
TimerAfter_One(timer, diff) == timer - 1

(* "m_updatePositionsTimer -= diff" *)
TimerAfter(timer, diff) == timer - diff

(* The owner has moved or turned since m_lastPosition: the manhattan
   distance is above 1.0 or the orientation differs *)
OwnerMoved(pos, last) ==
    \/ Abs(pos[1] - last[1]) + Abs(pos[2] - last[2]) + Abs(pos[3] - last[3]) > 1
    \/ NormalizeOrientation(pos[4] - last[4]) > 0

(* TransportBase::Update(diff) on the state f of the frame: the timer,
   m_lastPosition and the positions of the owner and the passengers *)
TransportBase_Update_frame(f, diff) ==
    IF TimerExpired(f.m_updatePositionsTimer, diff)
    THEN IF OwnerMoved(f.position[TheTransport], f.m_lastPosition)
         THEN [m_updatePositionsTimer |-> 500,
               m_lastPosition |-> f.position[TheTransport],
               position |-> [o \in DOMAIN f.position |->
                    IF o \in DOMAIN m_passengers[TheTransport] /\ IsUnit(o)
                    THEN GlobalPositionAt(f.position[TheTransport],
                                          m_passengers[TheTransport][o].m_localPosition)
                    ELSE f.position[o]]]
         ELSE [f EXCEPT !.m_updatePositionsTimer = 500]
    ELSE [f EXCEPT !.m_updatePositionsTimer = TimerAfter(@, diff)]

Frame ==
    [m_updatePositionsTimer |-> tb.m_updatePositionsTimer, m_lastPosition |-> tb.m_lastPosition,
     position |-> position]

(* TransportBase::Update(diff).  subTicks follows a run of calls, if one is
   followed: the frame it started in, the sum of the diffs, the number of
   calls, and whether the timer ran out in a call before the last one. *)
TransportBase_Update(diff) ==
    /\ ~legacy.hung
    /\ subTicks # <<>> => subTicks.n < subTicks.max
    /\ LET f == TransportBase_Update_frame(Frame, diff)
       IN  /\ tb' = [m_updatePositionsTimer |-> f.m_updatePositionsTimer,
                     m_lastPosition |-> f.m_lastPosition]
           /\ position' = f.position
    /\ subTicks' = IF subTicks = <<>> THEN subTicks
                   ELSE [subTicks EXCEPT !.sum = @ + diff, !.n = @ + 1,
                                         !.early = subTicks.early \/ subTicks.ranOut,
                                         !.ranOut = TimerExpired(tb.m_updatePositionsTimer, diff)]
    /\ call' = CallUpdate("TransportBase::Update", diff)
    /\ UNCHANGED <<m_passengers, m_transportInfo, onTransportFlag, dataVars, mgrVars,
                   msTime, legacy, events, tick>>

(* The owner moves along x by itself (WorldObject::Relocate), which starts a
   new run of TransportBase::Update calls *)
Relocate(dx) ==
    /\ ~legacy.hung
    /\ subTicks # <<>>
    /\ position[TheTransport][1] + dx <= MaxRelocate
    /\ position' = [position EXCEPT ![TheTransport][1] = @ + dx]
    /\ subTicks' = [start |-> [Frame EXCEPT !.position = position'], sum |-> 0, n |-> 0,
                    max |-> MaxSubTicks, early |-> FALSE, ranOut |-> FALSE]
    /\ call' = CallUpdate("Relocate", 0)
    /\ UNCHANGED <<m_passengers, m_transportInfo, onTransportFlag, dataVars, mgrVars,
                   msTime, legacy, events, tb, tick>>

(* A new run of TransportBase::Update calls starts *)
StartRun ==
    /\ subTicks # <<>>
    /\ subTicks.n > 0
    /\ subTicks' = [start |-> Frame, sum |-> 0, n |-> 0,
                    max |-> MaxSubTicks, early |-> FALSE, ranOut |-> FALSE]
    /\ call' = CallUpdate("none", 0)
    /\ UNCHANGED <<frameVars, dataVars, mgrVars, msTime, legacy, events, tb, tick>>

(* The motion specification: a Transport with a passenger, made at any of
   the clock values below for any of the paths below, whose Update is called
   while the clock goes on. *)

MotionPaths ==
    { << TaxiPathNodeEntry(0, 0, 0, 0, 0, 0), TaxiPathNodeEntry(0, 0, 2, 5, 1, 2),
         TaxiPathNodeEntry(0, 8, 2, 5, 3, 4), TaxiPathNodeEntry(0, 26, 2, 0, 5, 6),
         TaxiPathNodeEntry(0, 0, 0, 0, 0, 0) >>,
      << TaxiPathNodeEntry(0, 0, 0, 0, 0, 0), TaxiPathNodeEntry(0, 0, 2, 5, 1, 2),
         TaxiPathNodeEntry(0, 18, 0, 0, 3, 4), TaxiPathNodeEntry(0, 50, 2, 3, 5, 6),
         TaxiPathNodeEntry(0, 0, 0, 0, 0, 0) >>,
      << TaxiPathNodeEntry(0, 0, 0, 0, 0, 0), TaxiPathNodeEntry(0, 0, 2, 2, 1, 2),
         TaxiPathNodeEntry(0, 2, 2, 0, 3, 4), TaxiPathNodeEntry(0, 2, 2, 1, 5, 6),
         TaxiPathNodeEntry(0, 0, 0, 0, 0, 0) >> }

MotionStarts == {0, 9000}

ClockSteps == {2000, 7000}

MotionDiffs == {0, 250}

MotionLocal == <<1, 2, 3, 0>>

(* The Transport is made at its first way point with its passenger on
   board; m_period is the time of the path; the clock getMSTime starts at
   one of starts *)
InitMotionAt(starts) ==
    /\ m_passengers = [t \in {TheTransport} |->
            [o \in {ThePassenger} |-> TransportInfo(TheTransport, MotionLocal, NoSeat)]]
    /\ m_transportInfo = [o \in {TheTransport, ThePassenger} |->
            IF o = ThePassenger THEN TheTransport ELSE NULL]
    /\ onTransportFlag = [o \in {TheTransport, ThePassenger} |-> o = ThePassenger]
    /\ call = [op |-> "none", transport |-> NULL, passenger |-> NULL, pos |-> NoPos,
               ret |-> FALSE, again |-> FALSE]
    /\ \E p \in MotionPaths : sTaxiPathNodesByPath = [i \in {0} |-> p]
    /\ goInfos = <<>>
    /\ m_staticTransportInfos = <<>>
    /\ m_dynamicTransportInfos = <<>>
    /\ carrier = <<>>
    /\ unit = <<>>
    /\ rlw = NoRlw
    /\ aborted = FALSE
    /\ msTime \in starts
    /\ legacy = GenerateWaypoints(sTaxiPathNodesByPath[0])
                    @@ [m_timer |-> 0, m_period |-> GenerateWaypoints(sTaxiPathNodesByPath[0]).m_pathTime,
                        mapId |-> sTaxiPathNodesByPath[0][2].mapid, hung |-> FALSE,
                        updates |-> 0, lastAt |-> -1]
    /\ position = [o \in {TheTransport, ThePassenger} |->
            IF o = TheTransport THEN <<legacy.m_WayPoints[0].x, legacy.m_WayPoints[0].y,
                                       legacy.m_WayPoints[0].z, 0>>
            ELSE GlobalPositionAt(<<legacy.m_WayPoints[0].x, legacy.m_WayPoints[0].y,
                                    legacy.m_WayPoints[0].z, 0>>, MotionLocal)]
    /\ events = <<>>
    /\ tb = [m_updatePositionsTimer |-> 500, m_lastPosition |-> position[TheTransport]]
    /\ subTicks = <<>>
    /\ tick = <<>>

InitMotion == InitMotionAt(MotionStarts)

NextMotion ==
    \/ \E ms \in ClockSteps : AdvanceClock(ms)
    \/ \E diff \in MotionDiffs : Transport_Update(diff)
    \/ \E diff \in MotionDiffs : TransportBase_Update(diff)

SpecMotion == InitMotion /\ [][NextMotion]_vars

(* Clocks at which m_timer falls in the last 304 ms of a path time of 4900 ms:
   2^32 % 4900 = 4596, so "(m_next->first - m_curr->first) % m_pathTime" of
   the pair that wraps from the last way point (3900) to the first (0) is
   696 in uint32, not 1000 *)
WrapStarts == {600, 4600}

InitWrap == InitMotionAt(WrapStarts)

SpecWrap == InitWrap /\ [][NextMotion]_vars

(* The sub-tick specification: the TransportBase of the Transport, whose
   Update is called in runs with any of the diffs below while the owner moves
   by itself between the runs. *)

SubTickDiffs == {0, 1, 200, 300, 501}

SubTickMoves == {1, 2}

InitSubTicks ==
    /\ m_passengers = [t \in {TheTransport} |->
            [o \in {ThePassenger} |-> TransportInfo(TheTransport, MotionLocal, NoSeat)]]
    /\ m_transportInfo = [o \in {TheTransport, ThePassenger} |->
            IF o = ThePassenger THEN TheTransport ELSE NULL]
    /\ onTransportFlag = [o \in {TheTransport, ThePassenger} |-> o = ThePassenger]
    /\ call = [op |-> "none", transport |-> NULL, passenger |-> NULL, pos |-> NoPos,
               ret |-> FALSE, again |-> FALSE]
    /\ sTaxiPathNodesByPath = <<>>
    /\ goInfos = <<>>
    /\ m_staticTransportInfos = <<>>
    /\ m_dynamicTransportInfos = <<>>
    /\ carrier = <<>>
    /\ unit = <<>>
    /\ rlw = NoRlw
    /\ aborted = FALSE
    /\ msTime = 0
    /\ legacy = [hung |-> FALSE]
    /\ position = [o \in {TheTransport, ThePassenger} |->
            IF o = TheTransport THEN NoPos ELSE GlobalPositionAt(NoPos, MotionLocal)]
    /\ events = <<>>
    /\ tb = [m_updatePositionsTimer |-> 500, m_lastPosition |-> position[TheTransport]]
    /\ subTicks = [start |-> [m_updatePositionsTimer |-> 500, m_lastPosition |-> position[TheTransport],
                              position |-> position],
                   sum |-> 0, n |-> 0, max |-> MaxSubTicks, early |-> FALSE, ranOut |-> FALSE]
    /\ tick = <<>>

NextSubTicks ==
    \/ \E diff \in SubTickDiffs : TransportBase_Update(diff)
    \/ \E dx \in SubTickMoves : Relocate(dx)
    \/ StartRun

SpecSubTicks == InitSubTicks /\ [][NextSubTicks]_vars

----------------------------------------------------------------------------
(* The split specification: one transport whose taxi path has one, two or
   three runs of nodes of equal map id.  The loop "First split transport
   paths" does not compare j with MAX_MAPS_PER_MOT: on a path with more runs
   than that it writes past the end of mapIDs and of transportPaths, and what
   the call does from there on is not defined. *)

SplitMaps == {0, 1, 2}

(* The runs of the split specification on map m: two or three nodes *)
SplitRuns(m) ==
    UNION { { << TaxiPathNode(m, 0, 0), TaxiPathNode(m, 10, d) >>,
              << TaxiPathNode(m, 0, 0), TaxiPathNode(m, 10, 0), TaxiPathNode(m, 25, d) >> }
            : d \in {0, 5} }

SplitPaths ==
    UNION { SplitRuns(a) : a \in SplitMaps }
    \cup UNION { { r1 \o r2 : r1 \in SplitRuns(a), r2 \in SplitRuns(b) }
                 : <<a, b>> \in {m \in SplitMaps \X SplitMaps : m[1] # m[2]} }
    \cup UNION { { r1 \o r2 \o r3 : r1 \in SplitRuns(m[1]), r2 \in SplitRuns(m[2]), r3 \in SplitRuns(m[3]) }
                 : m \in {m \in SplitMaps \X SplitMaps \X SplitMaps : m[1] # m[2] /\ m[2] # m[3]} }

(* The index of the node with which the run after the last one that fits
   mapIDs starts *)
OverrunIdx(path) ==
    CHOOSE i \in RunStartIdx(path) : Cardinality({j \in RunStartIdx(path) : j < i}) = MAX_MAPS_PER_MOT

(* The outcomes of the write past the end of the arrays: the process ends,
   or the nodes of the runs that do not fit land in memory that nothing
   reads and the call goes on. *)
OverrunOutcomes == {"crash", "goes on"}

LoadTransporter_Overrun(entry, outcome) ==
    /\ ~aborted
    /\ rlw.pc = "startup"
    /\ entry \in DOMAIN goInfos
    /\ entry \notin DOMAIN m_staticTransportInfos
    /\ InsertTransporter(goInfos[entry]).status = "overrun"
    /\ LET goInfo == goInfos[entry]
           path == GetTaxiPathNodeList(goInfo.taxiPathId)
           fits == SubSeq(path, 1, OverrunIdx(path) - 1)
           rest == SubSeq(path, OverrunIdx(path), Len(path))
           split == SplitPath(fits, 1, 1,
                              [k \in 1..MAX_MAPS_PER_MOT |-> path[1].mapid],
                              [k \in 1..MAX_MAPS_PER_MOT |-> <<>>], 0)
           built == BuildSplines(split, goInfo.moveSpeed, 1,
                                 [splineList |-> [k \in 1..MAX_MAPS_PER_MOT |-> NoSpline],
                                  period |-> split.period + 1000 * SumDelays(rest, 1),
                                  asserted |-> FALSE])
       IN  IF outcome = "crash" \/ built.asserted
           THEN /\ aborted' = TRUE
                /\ UNCHANGED m_staticTransportInfos
           ELSE /\ m_staticTransportInfos' =
                        [e \in DOMAIN m_staticTransportInfos \cup {entry} |->
                            IF e = entry
                            THEN [goInfo |-> goInfo, mapIDs |-> split.mapIDs,
                                  splineList |-> built.splineList, period |-> built.period]
                            ELSE m_staticTransportInfos[e]]
                /\ UNCHANGED aborted
    /\ call' = Call("InsertTransporter", NULL, NULL, NoPos, ~aborted')
    /\ UNCHANGED <<frameVars, dataVars, motionVars, m_dynamicTransportInfos, carrier, unit, rlw>>

InitSplit ==
    /\ m_passengers = <<>>
    /\ m_transportInfo = <<>>
    /\ onTransportFlag = <<>>
    /\ position = <<>>
    /\ call = [op |-> "none", transport |-> NULL, passenger |-> NULL, pos |-> NoPos,
               ret |-> FALSE, again |-> FALSE]
    /\ \E p \in SplitPaths : sTaxiPathNodesByPath = [i \in {0} |-> p]
    /\ goInfos = [e \in {1} |-> GameObjectInfo(e, 0, 10)]
    /\ m_staticTransportInfos = <<>>
    /\ m_dynamicTransportInfos = <<>>
    /\ carrier = <<>>
    /\ unit = <<>>
    /\ rlw = [pc |-> "startup"]
    /\ aborted = FALSE
    /\ NoMotion

NextSplit ==
    \/ \E entry \in DOMAIN goInfos : LoadTransporter(entry)
    \/ \E entry \in DOMAIN goInfos, outcome \in OverrunOutcomes : LoadTransporter_Overrun(entry, outcome)

SpecSplit == InitSplit /\ [][NextSplit]_vars

----------------------------------------------------------------------------
(* The passenger frame with a turning owner.  Orientations are counted in
   units of 1/1600 of a turn (400 = pi/2, one unit = 0.003927 rad), sines,
   cosines and the global coordinates of a passenger in millionths; the
   coordinates of the owner and the local coordinates are whole world units.
   In this section tb holds the whole TransportBase: the pose of the owner,
   m_lastPosition, m_sinO, m_cosO, the timer, and its one passenger. *)

FullTurn == 1600
QuarterTurn == 400
Micro == 1000000

(* "> 0.01f": 0.01 rad lies between 2 and 3 units *)
TurnThreshold == 2

(* The tolerance of the frame transform, 1e-4, in millionths *)
Epsilon == 100

(* MapManager::NormalizeOrientation: the angle in [0, 2 pi) *)
NormalizeTurn(o) == o % FullTurn

(* o = Quarter(o) * QuarterTurn + SmallPart(o), SmallPart(o) in -200..199 *)
SmallPart(o) == ((o + 200) % QuarterTurn) - 200

Quarter(o) == ((o - SmallPart(o)) \div QuarterTurn) % 4

(* sin and cos of k units, k small, in millionths: x - x^3/6 and 1 - x^2/2 *)
SinSmall(k) == 3927 * k - (k * k * k) \div 99

CosSmall(k) == Micro - (771 * k * k) \div 100

(* sin(o) and cos(o) in millionths *)
SinMicro(o) ==
    LET k == SmallPart(o)
        q == Quarter(o)
    IN  CASE q = 0 -> SinSmall(k) [] q = 1 -> CosSmall(k)
          [] q = 2 -> -SinSmall(k) [] OTHER -> -CosSmall(k)

CosMicro(o) ==
    LET k == SmallPart(o)
        q == Quarter(o)
    IN  CASE q = 0 -> CosSmall(k) [] q = 1 -> -SinSmall(k)
          [] q = 2 -> -CosSmall(k) [] OTHER -> SinSmall(k)

(* The product of two numbers in millionths, in millionths; exact when one
   of them is a whole number *)
MulMicro(a, b) ==
    LET a1 == a \div 1000
        a0 == a % 1000
        b1 == b \div 1000
        b0 == b % 1000
    IN  a1 * b1 + (a1 * b0 + a0 * b1) \div 1000 + (a0 * b0) \div Micro

(* RotateLocalPosition: "This rotates the vector (lx, ly) by
   transporter->orientation"; lx, ly in millionths *)
Frame_RotateLocalPosition(f, lx, ly) ==
    << MulMicro(lx, f.m_cosO) - MulMicro(ly, f.m_sinO),
       MulMicro(lx, f.m_sinO) + MulMicro(ly, f.m_cosO) >>

(* NormalizeRotatedPosition: lx = rx * -m_cosO - ry * -m_sinO;
   ly = rx * -m_sinO + ry * -m_cosO *)
Frame_NormalizeRotatedPosition(f, rx, ry) ==
    << MulMicro(rx, -f.m_cosO) - MulMicro(ry, -f.m_sinO),
       MulMicro(rx, -f.m_sinO) + MulMicro(ry, -f.m_cosO) >>

(* CalculateGlobalPositionOf(lx, ly, lz, lo) *)
Frame_CalculateGlobalPositionOf(f, pos) ==
    LET r == Frame_RotateLocalPosition(f, pos[1] * Micro, pos[2] * Micro)
    IN  << r[1] + f.owner[1] * Micro,
           r[2] + f.owner[2] * Micro,
           (pos[3] + f.owner[3]) * Micro,
           NormalizeTurn(pos[4] + f.owner[4]) >>

(* NormalizeOrientation(pos.o - m_lastPosition.o) > 0.01f *)
Turned(o, last) == NormalizeTurn(o - last) > TurnThreshold

(* TransportBase::UpdateGlobalPositions *)
Frame_UpdateGlobalPositions(f) ==
    LET g == IF Turned(f.owner[4], f.m_lastPosition[4])
             THEN [f EXCEPT !.m_sinO = SinMicro(f.owner[4]), !.m_cosO = CosMicro(f.owner[4])]
             ELSE f
    IN  [g EXCEPT !.global = Frame_CalculateGlobalPositionOf(g, g.local),
                  !.m_lastPosition = g.owner]

(* The test of TransportBase::Update on the pose of the owner *)
Frame_OwnerMoved(f) ==
    \/ Abs(f.owner[1] - f.m_lastPosition[1]) + Abs(f.owner[2] - f.m_lastPosition[2])
         + Abs(f.owner[3] - f.m_lastPosition[3]) > 1
    \/ Turned(f.owner[4], f.m_lastPosition[4])

(* Mutant: the frame is refreshed as soon as the owner has moved *)
Frame_Refreshes_Sooner(f, diff) == Frame_OwnerMoved(f)

(* The frame is refreshed by TransportBase::Update(diff) *)
Frame_Refreshes(f, diff) == TimerExpired(f.m_updatePositionsTimer, diff) /\ Frame_OwnerMoved(f)

(* TransportBase::Update(diff) *)
Frame_Update(f, diff) ==
    LET g == IF Frame_Refreshes(f, diff) THEN Frame_UpdateGlobalPositions(f) ELSE f
    IN  IF TimerExpired(f.m_updatePositionsTimer, diff)
        THEN [g EXCEPT !.m_updatePositionsTimer = 500]
        ELSE [g EXCEPT !.m_updatePositionsTimer = TimerAfter(@, diff)]

(* The TransportBase of an owner at pose, after its constructor, with a
   passenger that stands at the local position pos *)
NewFrame(pose, pos) ==
    LET f == [owner |-> pose, m_lastPosition |-> pose,
              m_sinO |-> SinMicro(pose[4]), m_cosO |-> CosMicro(pose[4]),
              m_updatePositionsTimer |-> 500, local |-> pos, global |-> NoPos]
    IN  [f EXCEPT !.global = Frame_CalculateGlobalPositionOf(f, pos)]

FrameCall(op, diff, before, in, out) ==
    [op |-> op, transport |-> TheTransport, passenger |-> ThePassenger, pos |-> NoPos,
     ret |-> TRUE, again |-> FALSE, diff |-> diff, before |-> before, in |-> in, out |-> out]

(* The owner is moved to pose (WorldObject::Relocate, SetOrientation) *)
Owner_Relocate(pose) ==
    /\ tb.owner # pose
    /\ tb' = [tb EXCEPT !.owner = pose]
    /\ call' = FrameCall("Relocate", 0, tb, <<>>, <<>>)
    /\ UNCHANGED <<frameVars, dataVars, mgrVars, msTime, legacy, events, subTicks, tick>>

Do_UpdateGlobalPositions ==
    /\ tb' = Frame_UpdateGlobalPositions(tb)
    /\ call' = FrameCall("UpdateGlobalPositions", 0, tb, <<>>, <<>>)
    /\ UNCHANGED <<frameVars, dataVars, mgrVars, msTime, legacy, events, subTicks, tick>>

Do_Update(diff) ==
    /\ tb' = Frame_Update(tb, diff)
    /\ call' = FrameCall("TransportBase::Update", diff, tb, <<>>, <<>>)
    /\ UNCHANGED <<frameVars, dataVars, mgrVars, msTime, legacy, events, subTicks, tick>>

(* RotateLocalPosition(lx, ly, rx, ry); NormalizeRotatedPosition(rx, ry, lx, ly) *)
Do_RoundTrip(v) ==
    /\ LET r == Frame_RotateLocalPosition(tb, v[1] * Micro, v[2] * Micro)
       IN  call' = FrameCall("RoundTrip", 0, tb, <<v[1] * Micro, v[2] * Micro>>,
                             Frame_NormalizeRotatedPosition(tb, r[1], r[2]))
    /\ UNCHANGED <<frameVars, dataVars, mgrVars, motionVars>>

FramePoses ==
    { <<0, 0, 0, 0>>, <<0, 0, 0, 2>>, <<0, 0, 0, 4>>, <<1, 0, 0, 0>>,
      <<2, 0, 0, 1598>>, <<100, 200, 0, 400>>, <<0, 0, 0, 398>> }

FrameStarts == { <<0, 0, 0, 0>>, <<0, 0, 0, 398>>, <<100, 200, 0, 400>> }

FrameLocals == { <<1, 2, 3, 0>>, <<50, -50, 50, 400>> }

FrameDiffs == {0, 100, 250, 600}

FrameVectors == { <<1, 2>>, <<-5, 5>> }

InitFrame ==
    /\ m_passengers = [t \in {TheTransport} |->
            [o \in {ThePassenger} |-> TransportInfo(TheTransport, MotionLocal, NoSeat)]]
    /\ m_transportInfo = [o \in {TheTransport, ThePassenger} |->
            IF o = ThePassenger THEN TheTransport ELSE NULL]
    /\ onTransportFlag = [o \in {TheTransport, ThePassenger} |-> o = ThePassenger]
    /\ position = [o \in {TheTransport, ThePassenger} |-> NoPos]
    /\ call = [op |-> "none", transport |-> NULL, passenger |-> NULL, pos |-> NoPos,
               ret |-> FALSE, again |-> FALSE]
    /\ sTaxiPathNodesByPath = <<>>
    /\ goInfos = <<>>
    /\ m_staticTransportInfos = <<>>
    /\ m_dynamicTransportInfos = <<>>
    /\ carrier = <<>>
    /\ unit = <<>>
    /\ rlw = NoRlw
    /\ aborted = FALSE
    /\ msTime = 0
    /\ legacy = <<>>
    /\ events = <<>>
    /\ subTicks = <<>>
    /\ tick = <<>>
    /\ \E pose \in FrameStarts, pos \in FrameLocals : tb = NewFrame(pose, pos)

NextFrame ==
    \/ \E pose \in FramePoses : Owner_Relocate(pose)
    \/ Do_UpdateGlobalPositions
    \/ \E diff \in FrameDiffs : Do_Update(diff)
    \/ \E v \in FrameVectors : Do_RoundTrip(v)

SpecFrame == InitFrame /\ [][NextFrame]_vars

----------------------------------------------------------------------------
(* One round of the while loop of Update with passengers on board: the
   relocation of the carrier to the way point, or TeleportTransport.  The
   operations of the round are written to call.ops in the order in which the
   code performs them. *)

TheMot == <<"mot", 1>>

TeleportCarriers == {TheMot, TheTransport}

TeleportObjects == HandoffPlayers \cup Creatures \cup TeleportCarriers

Op(op, obj) == [op |-> op, obj |-> obj]

(* The way point m_curr after MoveToNextWayPoint *)
RoundWayPoint(mapid, x, teleport) == [mapid |-> mapid, x |-> x, y |-> 0, z |-> 0, teleport |-> teleport]

(* What the round works on: the passenger map of the carrier, the
   back-references, flags and positions, the players, and the operations so
   far; crashed: the process has ended *)
RoundState ==
    [m_transportInfo |-> m_transportInfo, onTransportFlag |-> onTransportFlag,
     position |-> position, unit |-> unit, ops |-> <<>>, crashed |-> FALSE]

(* The body of the passenger loop of TeleportTransport for a player: "Is
   this correct?", the teleport to the rotated local position at the new
   place of the owner, and the repop and unboarding of "Teleport passenger
   failed".  unboard: the name of the unboarding call. *)
TeleportPlayer(passengers, w, plr, newMapid, to, accepted, unboard) ==
    LET resurrects == IsDead(w.unit[plr].life) /\ ~HasGhostFlag(w.unit[plr].life)
        life == IF resurrects THEN ResurrectPlayer(plr, w.unit[plr].life) ELSE w.unit[plr].life
        dest == GlobalPositionAt(to, passengers[plr].m_localPosition)
        ops == w.ops \o (IF resurrects THEN << Op("ResurrectPlayer", plr) >> ELSE <<>>)
                     \o << Op("TeleportTo", plr) >>
    IN  IF accepted
        THEN [w EXCEPT !.unit[plr] = [@ EXCEPT !.mapId = newMapid, !.life = life],
                       !.position[plr] = dest,
                       !.ops = ops]
        ELSE [w EXCEPT !.unit[plr] = [@ EXCEPT !.life = life, !.where = "graveyard", !.entry = 0],
                       !.position[plr] = GraveyardPos,
                       !.m_transportInfo[plr] = NULL,
                       !.onTransportFlag[plr] = FALSE,
                       !.ops = ops \o << Op("RepopAtGraveyard", plr), Op(unboard, plr) >>]

(* What ++itr does on the iterator of an erased element *)
ErasedItrOutcomes == {"next", "end", "crash"}

(* The passenger loop of GOTransportBase::TeleportTransport, which iterates
   over m_passengers itself: passengers is the map as the loop finds it,
   without the players of gone *)
RECURSIVE GO_TeleportLoop(_, _, _, _, _, _, _, _)
GO_TeleportLoop(passengers, gone, w, itr, newMapid, to, accepted, outcome) ==
    IF itr = End THEN w
    ELSE IF ~IsPlayer(itr)
    THEN GO_TeleportLoop(passengers, gone, w, Increment(passengers, itr), newMapid, to,
                         accepted, outcome)
    ELSE LET w1 == TeleportPlayer(passengers, w, itr, newMapid, to, accepted[itr], "UnBoard")
             left == [o \in DOMAIN passengers \ {itr} |-> passengers[o]]
         IN  IF accepted[itr]
             THEN GO_TeleportLoop(passengers, gone, w1, Increment(passengers, itr), newMapid, to,
                                  accepted, outcome)
             ELSE CASE outcome = "next" ->
                         GO_TeleportLoop(left, gone \cup {itr}, w1, Increment(left, itr),
                                         newMapid, to, accepted, outcome)
                    [] outcome = "end" -> w1
                    [] OTHER -> [w1 EXCEPT !.crashed = TRUE]

(* The passenger loop of Transport::TeleportTransport, which iterates over a
   copy of the passenger map *)
RECURSIVE Transport_TeleportLoop(_, _, _, _, _, _)
Transport_TeleportLoop(passengers, w, itr, newMapid, to, accepted) ==
    IF itr = End THEN w
    ELSE IF ~IsPlayer(itr)
    THEN Transport_TeleportLoop(passengers, w, Increment(passengers, itr), newMapid, to, accepted)
    ELSE Transport_TeleportLoop(passengers,
                                TeleportPlayer(passengers, w, itr, newMapid, to, accepted[itr],
                                               "UnBoardPassenger"),
                                Increment(passengers, itr), newMapid, to, accepted)

(* The loop of UpdateGlobalPositions over the passengers: PlayerRelocation
   or CreatureRelocation to the global position *)
RECURSIVE UpdateGlobalPositionsLoop(_, _, _, _)
UpdateGlobalPositionsLoop(passengers, w, itr, to) ==
    IF itr = End THEN w
    ELSE LET w1 == IF IsUnit(itr)
                   THEN [w EXCEPT !.position[itr] = GlobalPositionAt(to, passengers[itr].m_localPosition),
                                  !.ops = Append(@, Op(IF IsPlayer(itr) THEN "PlayerRelocation"
                                                       ELSE "CreatureRelocation", itr))]
                   ELSE w
         IN  UpdateGlobalPositionsLoop(passengers, w1, Increment(passengers, itr), to)

(* The operations of the round before the branch *)
RoundEvents(t) ==
    << Op("DoEventIfAny", t), Op("MoveToNextWayPoint", t), Op("DoEventIfAny", t) >>

(* Mutant: the passengers are relocated before the owner *)
RelocationBranch_PassengersFirst(t, w, to, relocation) ==
    LET w1 == UpdateGlobalPositionsLoop(m_passengers[t], w, Begin(m_passengers[t]), to)
    IN  [w1 EXCEPT !.position[t] = to, !.ops = Append(@, Op(relocation, t))]

(* The else branch of the round: the relocation of the owner, then "Update
   passenger positions".  relocation: the name of the relocating call. *)
RelocationBranch(t, w, to, relocation) ==
    UpdateGlobalPositionsLoop(m_passengers[t],
                              [w EXCEPT !.position[t] = to, !.ops = Append(@, Op(relocation, t))],
                              Begin(m_passengers[t]), to)

(* GOTransportBase::TeleportTransport *)
GOTransportBase_TeleportTransport(t, w, newMapid, to, accepted, outcome) ==
    GO_TeleportLoop(m_passengers[t], {},
                    [w EXCEPT !.position[t] = to,
                              !.ops = @ \o << Op("Remove", t), Op("CreateMap", t),
                                              Op("Relocate", t), Op("Add", t) >>],
                    Begin(m_passengers[t]), newMapid, to, accepted, outcome)

(* Transport::TeleportTransport *)
Transport_TeleportTransport(t, w, newMapid, to, accepted) ==
    LET w1 == Transport_TeleportLoop(m_passengers[t],
                                     [w EXCEPT !.position[t] = to,
                                               !.ops = Append(@, Op("Relocate", t))],
                                     Begin(m_passengers[t]), newMapid, to, accepted)
    IN  [w1 EXCEPT !.ops = @ \o << Op("CreateMap", t), Op("SetMap", t) >>
                           \o (IF carrier[t].mapId # newMapid
                               THEN << Op("UpdateForMap", t), Op("UpdateForMap", t) >> ELSE <<>>)]

CallRound(op, t, wp, w, before) ==
    [op |-> op, transport |-> t, passenger |-> NULL, pos |-> NoPos, ret |-> ~w.crashed,
     again |-> FALSE, wp |-> wp, ops |-> w.ops, before |-> before]

(* The state after a round that has come to w *)
RoundEnds(op, t, wp, w) ==
    /\ m_passengers' = [m_passengers EXCEPT ![t] =
            [o \in {p \in DOMAIN m_passengers[t] : w.m_transportInfo[p] # NULL}
                |-> m_passengers[t][o]]]
    /\ m_transportInfo' = w.m_transportInfo
    /\ onTransportFlag' = w.onTransportFlag
    /\ position' = w.position
    /\ unit' = w.unit
    /\ carrier' = [carrier EXCEPT ![t].mapId = wp.mapid]
    /\ aborted' = w.crashed
    /\ call' = CallRound(op, t, wp, w,
                         [life |-> [p \in HandoffPlayers |-> unit[p].life],
                          passengers |-> DOMAIN m_passengers[t], mapId |-> carrier[t].mapId])
    /\ UNCHANGED <<dataVars, motionVars, m_staticTransportInfos, m_dynamicTransportInfos, rlw>>

(* GOTransportBase::Update: a round of its loop to the way point wp *)
GOTransportBase_Update(wp, accepted, outcome) ==
    /\ ~aborted
    /\ carrier[TheMot].state = "live"
    /\ LET t == TheMot
           to == <<wp.x, wp.y, wp.z, position[t][4]>>
           w == [RoundState EXCEPT !.ops = RoundEvents(t)]
       IN  IF wp.mapid # carrier[t].mapId \/ wp.teleport
           THEN RoundEnds("GOTransportBase::Update", t, wp,
                          GOTransportBase_TeleportTransport(t, w, wp.mapid, to, accepted, outcome))
           ELSE RoundEnds("GOTransportBase::Update", t, wp,
                          RelocationBranch(t, w, to, "GameObjectRelocation"))

(* Transport::Update: a round of its loop to the way point wp *)
Transport_UpdateRound(wp, accepted) ==
    /\ ~aborted
    /\ carrier[TheTransport].state = "live"
    /\ LET t == TheTransport
           to == <<wp.x, wp.y, wp.z, position[t][4]>>
           w == [RoundState EXCEPT !.ops = RoundEvents(t)]
       IN  IF wp.mapid # carrier[t].mapId \/ wp.teleport
           THEN RoundEnds("Transport::Update", t, wp,
                          Transport_TeleportTransport(t, w, wp.mapid, to, accepted))
           ELSE RoundEnds("Transport::Update", t, wp, RelocationBranch(t, w, to, "Relocate"))

(* The teleport specification: a GOTransportBase carrier or a Transport on
   map 0, two players and a creature that board it, die and release the
   spirit, and rounds of its Update to any of the way points below, with
   every answer of the players' TeleportTo. *)

RoundWayPoints ==
    { RoundWayPoint(0, 10, FALSE), RoundWayPoint(0, 20, TRUE), RoundWayPoint(1, 0, FALSE) }

TeleportLocals == { <<1, 2, 3, 0>> }

InitTeleport ==
    /\ m_passengers = [t \in TeleportCarriers |-> <<>>]
    /\ m_transportInfo = [o \in TeleportObjects |-> NULL]
    /\ onTransportFlag = [o \in TeleportObjects |-> FALSE]
    /\ position = [o \in TeleportObjects |-> IF o \in TeleportCarriers THEN CarrierStart(o) ELSE NoPos]
    /\ call = [op |-> "none", transport |-> NULL, passenger |-> NULL, pos |-> NoPos,
               ret |-> FALSE, again |-> FALSE]
    /\ sTaxiPathNodesByPath = <<>>
    /\ goInfos = <<>>
    /\ m_staticTransportInfos = <<>>
    /\ m_dynamicTransportInfos = <<>>
    /\ \E live \in TeleportCarriers :
         carrier = [t \in TeleportCarriers |->
                        IF t = live
                        THEN [NoCarrier EXCEPT !.state = "live", !.entry = 1, !.guid = ObjectGuid(1)]
                        ELSE NoCarrier]
    /\ unit = [p \in HandoffPlayers \cup Creatures |->
                    [mapId |-> 0, life |-> "alive", where |-> "world", entry |-> 0]]
    /\ rlw = NoRlw
    /\ aborted = FALSE
    /\ NoMotion

NextTeleport ==
    \/ /\ ~aborted /\ carrier[TheMot].state = "live"
       /\ \E o \in HandoffPlayers \cup Creatures, pos \in TeleportLocals : Board(TheMot, o, pos)
       /\ UNCHANGED <<dataVars, motionVars, mgrVars>>
    \/ /\ ~aborted /\ carrier[TheTransport].state = "live"
       /\ \E o \in HandoffPlayers \cup Creatures, pos \in TeleportLocals :
            Transport_BoardPassenger(TheTransport, o, pos)
       /\ UNCHANGED <<dataVars, motionVars, mgrVars>>
    \/ \E plr \in HandoffPlayers : KillPlayer(plr)
    \/ \E plr \in HandoffPlayers : BuildPlayerCorpse(plr)
    \/ \E wp \in RoundWayPoints, accepted \in [HandoffPlayers -> BOOLEAN],
          outcome \in ErasedItrOutcomes : GOTransportBase_Update(wp, accepted, outcome)
    \/ \E wp \in RoundWayPoints, accepted \in [HandoffPlayers -> BOOLEAN] :
          Transport_UpdateRound(wp, accepted)

SpecTeleport == InitTeleport /\ [][NextTeleport]_vars

----------------------------------------------------------------------------
(* Properties of Update *)

(* The motion cursor of the Transport *)
Cursor == <<legacy.m_curr, legacy.m_next, legacy.m_nextNodeTime, legacy.mapId, legacy.hung>>

UpdateOps == {"Transport::Update", "TransportBase::Update"}

(* C17 as stated: an Update with diff = 0 changes neither the position of the
   carrier, nor its motion cursor, nor the passenger-frame timer and
   m_lastPosition, nor the position of a passenger, and dispatches no event,
   in every state. *)
C17_ZeroDiffChangesNothing ==
    [][ (call'.op \in UpdateOps /\ call'.diff = 0)
            => (UNCHANGED <<position, tb, events, m_passengers>> /\ Cursor' = Cursor) ]_vars

(* C17: an Update with diff = 0 at the clock value of the Update of the
   Transport before it, and TransportBase::Update(0) in every state, changes
   neither the position of the carrier, nor its motion cursor, nor the
   passenger-frame timer and m_lastPosition, nor the position of a passenger,
   and dispatches no event. *)
C17_ZeroDiffAtSameClock ==
    [][ (/\ call'.op \in UpdateOps /\ call'.diff = 0
         /\ call'.op = "Transport::Update" => legacy.lastAt = msTime)
            => (UNCHANGED <<position, tb, events, m_passengers>> /\ Cursor' = Cursor) ]_vars

(* Update(0) has been called right after an Update that moved the Transport
   and dispatched events, at the same clock value. *)
C17_Witness ==
    /\ call.op = "Transport::Update" /\ call.again /\ call.diff = 0
    /\ events # <<>> /\ events[Len(events)].update = legacy.updates - 1
    /\ legacy.lastAt = msTime

(* C19: for every way point of a node with delay > 0, every departure event
   of it comes after an arrival event of it with no event of it in between,
   dispatched at least delay * 1000 ms before, and two arrival events of it
   have a departure event of it in between. *)
C19_OneArrivalOneDeparture ==
    /\ \A i \in DOMAIN events :
         (events[i].kind = "departure" /\ legacy.m_WayPoints[events[i].node].delay > 0)
            => \E j \in 1..(i - 1) :
                 /\ events[j].kind = "arrival" /\ events[j].node = events[i].node
                 /\ \A k \in (j + 1)..(i - 1) : events[k].node # events[i].node
                 /\ events[i].at - events[j].at >= legacy.m_WayPoints[events[i].node].delay * 1000
    /\ \A i \in DOMAIN events, j \in DOMAIN events :
         (/\ i < j /\ events[i].kind = "arrival" /\ events[j].kind = "arrival"
          /\ events[i].node = events[j].node
          /\ legacy.m_WayPoints[events[i].node].delay > 0)
            => \E k \in (i + 1)..(j - 1) :
                  events[k].kind = "departure" /\ events[k].node = events[i].node

(* C20: every departure event of a way point that has an arrival event comes
   after an arrival event of that way point, and on a path all of whose way
   points have both events, an arrival event is followed by the departure
   event of the same way point and a departure event by the arrival event of
   the next way point of the path. *)
C20_EventsInPathOrder ==
    /\ \A i \in DOMAIN events :
         (events[i].kind = "departure" /\ legacy.m_WayPoints[events[i].node].arrivalEventID # 0)
            => \E j \in 1..(i - 1) :
                  events[j].kind = "arrival" /\ events[j].node = events[i].node
    /\ (\A k \in DOMAIN legacy.m_WayPoints :
            legacy.m_WayPoints[k].arrivalEventID # 0 /\ legacy.m_WayPoints[k].departureEventID # 0)
         => \A i \in 1..(Len(events) - 1) :
              /\ events[i].kind = "arrival"
                    => events[i + 1].kind = "departure" /\ events[i + 1].node = events[i].node
              /\ events[i].kind = "departure"
                    => /\ events[i + 1].kind = "arrival"
                       /\ events[i + 1].node = NextWayPoint(legacy.m_WayPoints, events[i].node)

(* C18 as stated: after a run of TransportBase::Update calls, the timer,
   m_lastPosition and the positions of the owner and the passengers are what
   one call with the sum of the diffs makes of the frame the run started in. *)
C18_SubTicksAsOneTick ==
    (subTicks # <<>> /\ subTicks.n >= 1)
        => Frame = TransportBase_Update_frame(subTicks.start, subTicks.sum)

(* C18: after a run of TransportBase::Update calls in which the timer has not
   run out in a call before the last one, the timer, m_lastPosition and the
   positions of the owner and the passengers are what one call with the sum
   of the diffs makes of the frame the run started in. *)
C18_SubTicksWithoutEarlyExpiry ==
    (subTicks # <<>> /\ subTicks.n >= 1 /\ ~subTicks.early)
        => Frame = TransportBase_Update_frame(subTicks.start, subTicks.sum)

(* A run of three calls, in the last of which the timer ran out and the
   passenger of an owner that had moved was relocated. *)
C18_Witness ==
    /\ subTicks # <<>>
    /\ subTicks.n = 3 /\ ~subTicks.early /\ subTicks.ranOut
    /\ subTicks.sum > 500
    /\ position[ThePassenger] # subTicks.start.position[ThePassenger]

(* The global position of the passenger of frame f by the formula, with sin
   and cos at the orientation of the owner *)
GlobalByFormula(f) ==
    << f.owner[1] * Micro + f.local[1] * CosMicro(f.owner[4]) - f.local[2] * SinMicro(f.owner[4]),
       f.owner[2] * Micro + f.local[1] * SinMicro(f.owner[4]) + f.local[2] * CosMicro(f.owner[4]),
       (f.owner[3] + f.local[3]) * Micro,
       NormalizeTurn(f.owner[4] + f.local[4]) >>

Near(p, q) ==
    /\ Abs(p[1] - q[1]) <= Epsilon /\ Abs(p[2] - q[2]) <= Epsilon
    /\ Abs(p[3] - q[3]) <= Epsilon /\ p[4] = q[4]

(* C21: after UpdateGlobalPositions the passenger at local (lx, ly, lz, lo)
   of an owner at (x, y, z, o) is at gx = x + lx*cos(o) - ly*sin(o),
   gy = y + lx*sin(o) + ly*cos(o), gz = z + lz, go = normalize(o + lo),
   within 1e-4. *)
C21_GlobalPositionByFormula ==
    call.op = "UpdateGlobalPositions" => Near(tb.global, GlobalByFormula(tb))

(* C22: RotateLocalPosition and then NormalizeRotatedPosition return the
   vector they were given, exactly when the orientation of the frame (the
   one m_sinO and m_cosO were calculated for) is a multiple of pi/2 and
   within 1e-4 otherwise. *)
C22_RoundTrip ==
    call.op = "RoundTrip"
        => /\ Abs(call.out[1] - call.in[1]) <= Epsilon
           /\ Abs(call.out[2] - call.in[2]) <= Epsilon
           /\ {Abs(tb.m_cosO), Abs(tb.m_sinO)} = {0, Micro} => call.out = call.in

(* The frame has just been refreshed: m_lastPosition is the pose of the owner
   and the passenger is where CalculateGlobalPositionOf puts it *)
Refreshed(f) ==
    /\ f.m_lastPosition = f.owner
    /\ f.global = Frame_CalculateGlobalPositionOf(f, f.local)

(* C27 as stated: TransportBase::Update refreshes the frame on the call at
   which 500 ms of diff have accumulated since the timer was set, and on any
   call before which the owner has moved more than 1.0 or turned more than
   0.01 rad since m_lastPosition. *)
C27_RefreshedEvery500OrSooner ==
    call.op = "TransportBase::Update"
        => ((call.diff >= call.before.m_updatePositionsTimer \/ Frame_OwnerMoved(call.before))
                => Refreshed(tb))

(* C27: TransportBase::Update refreshes the frame on the calls whose diff is
   greater than what is left of the timer and before which the owner has
   moved more than 1.0 or turned more than 0.01 rad since m_lastPosition, and
   on no other call. *)
C27_RefreshedWhenTimerRunsOut ==
    call.op = "TransportBase::Update"
        => IF /\ call.before.m_updatePositionsTimer < call.diff
              /\ Frame_OwnerMoved(call.before)
           THEN Refreshed(tb)
           ELSE tb.m_lastPosition = call.before.m_lastPosition /\ tb.global = call.before.global

(* An Update that found a part of the 500 ms left, less than its diff, and
   the owner moved, and relocated the passenger. *)
C27_Witness ==
    /\ call.op = "TransportBase::Update"
    /\ call.before.m_updatePositionsTimer < 500
    /\ call.before.m_updatePositionsTimer < call.diff
    /\ Frame_OwnerMoved(call.before)
    /\ tb.global # call.before.global

(* The nodes of the k-th run of equal map id of a path, as control points *)
RunPoints(path, k) ==
    LET starts == RunStartIdx(path)
        from == CHOOSE i \in starts : Cardinality({j \in starts : j < i}) = k - 1
        later == {i \in starts : i > from}
        to == IF later = {} THEN Len(path)
              ELSE (CHOOSE i \in later : \A j \in later : i <= j) - 1
    IN  [n \in 1..(to - from + 1) |-> <<path[from + n - 1].x, path[from + n - 1].y, path[from + n - 1].z>>]

(* The segments of a route of the registry: the indices that hold a spline *)
Segments(info) == {k \in DOMAIN info.splineList : info.splineList[k] # NoSpline}

(* C30: a route of the registry has one segment for every maximal run of
   nodes of equal map id of its taxi path, in the order of the runs; the
   segment of a run is on the map of the run and its control points are the
   nodes of the run in input order; adjacent segments are on different maps,
   and a route that stays on one map has one segment. *)
C30_SegmentsAreRuns ==
    \A e \in DOMAIN m_staticTransportInfos :
        LET info == m_staticTransportInfos[e]
            path == PathOf(e)
        IN  /\ Segments(info) = 1..NumSegments(path)
            /\ \A k \in Segments(info) :
                  /\ k <= NumSegments(path)
                        => /\ info.mapIDs[k] = SegmentStart(path, k).mapid
                           /\ info.splineList[k].points = RunPoints(path, k)
                  /\ (k + 1) \in Segments(info) => info.mapIDs[k] # info.mapIDs[k + 1]
            /\ SingleMapRoute(e) => Cardinality(Segments(info)) = 1

(* The loop that drives a map: "Each map owns a tick loop", here every map
   its own *)
ThreadOf(mapId) == mapId

(* The thread that runs the Update of a transporter, and with it
   ReachedLastWaypoint: the loop of the map the transporter is on *)
RunsOn(transport) == ThreadOf(carrier[transport].mapId)

(* C23: a transporter that ReachedLastWaypoint creates on the next map is
   added to that map by the thread of that map, never by the thread that runs
   the handoff of the old transporter when the two differ. *)
C23_CreationByTargetMapThread ==
    [][\A t \in Mots :
          (call'.op = "ReachedLastWaypoint" /\ carrier[t].state = "none" /\ carrier'[t].state = "live")
              => RunsOn(call'.transport) = ThreadOf(carrier'[t].mapId)]_vars

(* C29: every accepted TeleportTo of the handoff puts the player on the map
   of the new transporter, on the transport of the same entry, at the local
   position the player had on the old transporter. *)
C29_SameLocalOffset ==
    [][(call'.op = "TeleportTo" /\ call'.ret)
        => LET plr == call'.passenger
               old == call'.transport
           IN  /\ plr \in DOMAIN m_passengers[old]
               /\ carrier[rlw.created].state = "live"
               /\ unit'[plr].mapId = carrier[rlw.created].mapId
               /\ unit'[plr].mapId # carrier[old].mapId
               /\ unit'[plr].where = "transport"
               /\ unit'[plr].entry = carrier[rlw.created].entry
               /\ position'[plr] = m_passengers[old][plr].m_localPosition]_vars

(* C29 witness: a player that the handoff has teleported, at the local
   position of boarding, on the map of the new transporter. *)
C29_Witness ==
    /\ call.op = "TeleportTo"
    /\ call.ret
    /\ unit[call.passenger].where = "transport"
    /\ position[call.passenger] \in HandoffLocals
    /\ \E t \in Mots : carrier[t].state = "live" /\ carrier[t].mapId = unit[call.passenger].mapId
                        /\ carrier[t].entry = unit[call.passenger].entry

(* The number of the last node of the segment the carrier ticks on *)
FinalNode == spline_last(TickSpline)

(* C25: the controller notifies the handoff for a segment that is not cyclic
   and whose final node has delay > 0 only when the dwell at the final node
   has been consumed: no carrier has been handed over with a dwell
   pending. *)
C25_HandoffAfterDwell ==
    (tick # <<>> /\ tick.notified /\ NodeDelay(FinalNode) > 0) => tick.dwellRemainingMs = 0

(* A carrier that is not arrived and not dwelling with the time passed equal
   to the total length of its segment *)
AtSegmentEnd(s) ==
    /\ ~s.arrived
    /\ s.dwellRemainingMs = 0
    /\ s.timePassedMs = total_length_ms(TickSpline)

(* C24: a tick with diff > 0 of a carrier that is not arrived and not
   dwelling and whose timePassedMs equals the total length of its segment
   transitions the segment: a segment that is not cyclic becomes arrived with
   the time passed left at the total length; on a cyclic segment the cursor
   wraps, the time passed restarts at diff modulo the total length and no
   carrier stays arrived, and with a diff below the time of the first knot
   the cursor is on the first knot with currentNode = 0. *)
C24_TransitionsAtSegmentEnd ==
    [][(call'.op = "tick" /\ call'.diff > 0 /\ AtSegmentEnd(tick))
        => IF tick.isCyclic
           THEN /\ ~tick'.arrived
                /\ tick'.timePassedMs = call'.diff % total_length_ms(TickSpline)
                /\ tick'.currentNode <= CrossedKnot(TickSpline, tick')
                /\ call'.diff < length_ms(TickSpline, 1)
                     => tick'.pathPointIdx = spline_first /\ tick'.currentNode = 0
           ELSE /\ tick'.arrived
                /\ tick'.timePassedMs = total_length_ms(TickSpline)]_vars

(* C24 witness: the cyclic carrier started at the end of its segment has
   wrapped to the first knot on its first tick with diff > 0. *)
C24_Witness ==
    /\ call.op = "tick"
    /\ call.diff > 0
    /\ tick.isCyclic
    /\ tick.pathProgress = total_length_ms(TickSpline) + call.diff
    /\ tick.timePassedMs = call.diff
    /\ tick.pathPointIdx = spline_first
    /\ tick.currentNode = 0

(* The rounds of the two Updates *)
RoundOps == {"GOTransportBase::Update", "Transport::Update"}

(* The operations that relocate the owner, and those that relocate or
   teleport a passenger *)
OwnerRelocations == {"Relocate", "GameObjectRelocation"}

PassengerMoves == {"TeleportTo", "RepopAtGraveyard", "PlayerRelocation", "CreatureRelocation"}

(* The places in the operations of the round where op is called on obj *)
OpsAt(op, obj) == {i \in DOMAIN call.ops : call.ops[i] = Op(op, obj)}

(* The round of the call has gone through TeleportTransport *)
TeleportRound == call.wp.mapid # call.before.mapId \/ call.wp.teleport

(* C26: in every round of Update to a way point, the relocation of the
   carrier to the way point comes before every relocation and every teleport
   of a passenger, and the carrier is at the way point after the round; in
   GOTransportBase::TeleportTransport the carrier is also added to the new
   map before the first teleport of a passenger. *)
C26_CarrierBeforePassengers ==
    call.op \in RoundOps =>
        /\ \A j \in DOMAIN call.ops :
             call.ops[j].op \in PassengerMoves =>
                /\ \E i \in 1..(j - 1) :
                      call.ops[i].op \in OwnerRelocations /\ call.ops[i].obj = call.transport
                /\ (call.op = "GOTransportBase::Update" /\ TeleportRound)
                      => \E i \in 1..(j - 1) : call.ops[i] = Op("Add", call.transport)
        /\ position[call.transport][1] = call.wp.x

(* C26 witness: rounds that have relocated or teleported a player after the
   carrier: here a teleport round of the Transport with a player teleported
   to the new map. *)
C26_Witness ==
    /\ call.op = "Transport::Update"
    /\ TeleportRound
    /\ \E plr \in HandoffPlayers :
         /\ OpsAt("TeleportTo", plr) # {}
         /\ plr \in DOMAIN m_passengers[TheTransport]
         /\ unit[plr].mapId = call.wp.mapid

(* C28: after a round of Update that has gone through TeleportTransport and
   returned, every player that was a passenger has been resurrected if and
   only if the player was dead without the ghost flag, and the resurrection
   came before the teleport of that player. *)
C28_ResurrectedIffDeadNoGhost ==
    (call.op \in RoundOps /\ TeleportRound /\ call.ret) =>
        \A plr \in call.before.passengers \cap HandoffPlayers :
            IF call.before.life[plr] = "dead"
            THEN /\ unit[plr].life = "alive"
                 /\ \E i \in OpsAt("ResurrectPlayer", plr) :
                      \E j \in OpsAt("TeleportTo", plr) : i < j
            ELSE /\ unit[plr].life = call.before.life[plr]
                 /\ OpsAt("ResurrectPlayer", plr) = {}

(* The transporters that the step has created *)
CreatedInStep == {t \in Mots : carrier[t].state = "none" /\ carrier'[t].state = "live"}

(* C31: a transporter that LoadTransporterForInstanceMap creates is on a map
   that is no continent, and every node of its taxi path is on that map; the
   call creates at most one transporter and changes no other. *)
C31_InstanceLoadOnlySingleMap ==
    [][call'.op = "LoadTransporterForInstanceMap"
        => /\ \A t \in CreatedInStep :
                /\ ~IsContinent(carrier'[t].mapId)
                /\ NumSegments(PathOf(carrier'[t].entry)) = 1
                /\ \A i \in DOMAIN PathOf(carrier'[t].entry) :
                        PathOf(carrier'[t].entry)[i].mapid = carrier'[t].mapId
           /\ \A t \in Mots \ CreatedInStep : carrier'[t] = carrier[t]
           /\ call'.ret <=> CreatedInStep # {}]_vars

(* C31 witness: the load of dungeon map 2 has created the transporter of the
   route on map 2. *)
C31_Witness ==
    /\ call.op = "LoadTransporterForInstanceMap"
    /\ call.ret
    /\ carrier[call.transport].state = "live"
    /\ carrier[call.transport].mapId = 2
    /\ Instanceable(carrier[call.transport].mapId)

(* The players the passenger loop of the handoff has processed *)
Processed == rlw.teleported \cup rlw.refused

(* C32: the passenger loop of ReachedLastWaypoint processes no player a
   second time, whatever the answers of TeleportTo, and once entered it comes
   to its end with the old transporter deleted. *)
C32_MigrationLoopTerminates ==
    /\ [][call'.op = "TeleportTo"
            => /\ call'.passenger \notin Processed
               /\ call'.passenger \in Processed'
               /\ call'.passenger \notin DOMAIN m_passengers'[rlw.transport]]_vars
    /\ (rlw.pc = "loop")
            ~> (InHandoff /\ rlw.pc = "idle" /\ carrier[rlw.transport].state = "deleted")

(* C32 witness: a handoff has ended that has processed every player, with
   teleports accepted and refused, and has left a creature to the
   destruction of the transporter. *)
C32_Witness ==
    /\ InHandoff /\ rlw.pc = "idle"
    /\ carrier[rlw.transport].state = "deleted"
    /\ Cardinality(Processed) = NumHandoffPlayers
    /\ rlw.refused # {} /\ rlw.teleported # {}
    /\ \E o \in Creatures : unit[o].where = "removed"

(* C33: no object is boarded, directly or through other carriers, on itself:
   the walk of HasOnBoard from every object down its own back-references
   ends without meeting the object. *)
C33_BoardedOnAcyclic ==
    \A o \in DOMAIN m_transportInfo :
        HasOnBoardWalk(m_transportInfo, o, o, Cardinality(DOMAIN m_transportInfo)) = "false"

(* The carriers whose passenger map holds obj *)
Holders(obj) == {t \in DOMAIN m_passengers : obj \in DOMAIN m_passengers[t]}

(* C34: the back-reference of an object is set if and only if exactly one
   passenger map holds the object, it then names that carrier and the slot in
   that map names it too; no object is in two passenger maps. *)
C34_BackReferenceMatchesSlot ==
    \A o \in DOMAIN m_transportInfo :
        /\ Cardinality(Holders(o)) <= 1
        /\ IsBoarded(o) <=> Cardinality(Holders(o)) = 1
        /\ IsBoarded(o) =>
              /\ Holders(o) = {m_transportInfo[o]}
              /\ m_passengers[m_transportInfo[o]][o].m_transport = m_transportInfo[o]

(* C34 witness: after boardings and an UnBoard that returned true, the player
   is on one carrier and that carrier on the other one. *)
C34_Witness ==
    /\ call.op \in UnBoardOps /\ call.ret
    /\ \E p \in Players, t \in BoardCarriers, u \in BoardCarriers :
         /\ t # u
         /\ Holders(p) = {t} /\ m_transportInfo[p] = t
         /\ Holders(t) = {u} /\ m_transportInfo[t] = u

(* The orientations within 0.01 rad of o *)
NearOrientations(o) == {NormalizeTurn(o + FullTurn + d) : d \in (0 - TurnThreshold)..TurnThreshold}

(* C35: after UpdateGlobalPositions m_sinO and m_cosO are the sine and the
   cosine of an orientation within 0.01 rad of the orientation of the
   owner. *)
C35_MultipliersFollowOwner ==
    call.op = "UpdateGlobalPositions"
        => \E o \in NearOrientations(tb.owner[4]) :
                tb.m_sinO = SinMicro(o) /\ tb.m_cosO = CosMicro(o)

(* C36: every call of the waypoint-based Update returns: whatever the world
   timer, the period and the path time, the while loop of Update moves the
   cursor at most once per way point and then finds its condition false, so
   no Update ends with the cursor still going round the way points. *)
C36_UpdateLoopTerminates ==
    /\ ~legacy.hung
    /\ call.op = "Transport::Update" =>
            ~LoopCondition([legacy EXCEPT !.m_timer = legacy.lastAt % legacy.m_period])

(* C37: TeleportTransport does not take an entry out of the passenger map
   while it iterates over it: in every round that goes through
   TeleportTransport, also when a player refuses the teleport and is
   unboarded, the loop goes on to its end and every player that was on
   board is teleported exactly once. *)
C37_RefusalKeepsCursor ==
    (call.op \in RoundOps /\ TeleportRound) =>
        /\ call.ret
        /\ \A p \in call.before.passengers :
              IsPlayer(p) => Cardinality(OpsAt("TeleportTo", p)) = 1

(* The live transporters of an entry, and the entries InitializeTransporters
   initializes: "Initialize only continental transporters" *)
LiveOf(entry) == {t \in Mots : carrier[t].state = "live" /\ carrier[t].entry = entry}

ContinentalEntry(entry) == IsContinent(m_staticTransportInfos[entry].mapIDs[1])

(* C38: after InitializeTransporters and after every handoff that has run to
   its end, every continental entry of the catalog has exactly one live
   transporter: no handoff destroys the old transporter without a new one
   created and added to the next map, and none leaves two of them. *)
C38_OneLiveCarrierPerEntry ==
    (rlw.pc = "idle" /\ ~aborted) =>
        \A entry \in DOMAIN m_staticTransportInfos :
            ContinentalEntry(entry) => Cardinality(LiveOf(entry)) = 1

====
